---------------------------- MODULE Spec2Model ----------------------------
(***************************************************************************)
(* A model of the n-dimensional Ising simulation (src/n-dimensional):      *)
(* the Lattice (neighbour list, distance map), the Configuration, the      *)
(* energy functions and the Metropolis-Hastings sweep driver evolve.       *)
(*                                                                         *)
(* Conventions.  C++ containers are 0-based, TLA+ sequences are 1-based:   *)
(* the element the code calls v[k] is v[k+1] here.  Sites, coordinates and *)
(* dimensions keep the code's 0-based values.  J/kT and h/kT are drawn     *)
(* from small integers, for which the double arithmetic of the code is     *)
(* exact; a quotient the code computes in double (magnetisation, the       *)
(* correlator, the acceptance rate) is kept as the pair <<numerator,       *)
(* denominator>>.                                                          *)
(***************************************************************************)
EXTENDS Integers, Sequences, FiniteSets, TLC

(***************************************************************************)
(* Bounds of the model.                                                    *)
(***************************************************************************)
\* largest number of dimensions of a lattice
MaxDim == 3
\* largest extent of a lattice in one dimension
MaxExtent == 4
\* largest number of sites of a lattice whose topology alone is explored
MaxSites == 12
\* largest number of sites of a lattice that carries a configuration
MaxSpinSites == 4
\* largest number of sites of a lattice that main runs on
MaxMainSites == 2
\* largest number of ensembles of one run of main
MaxEnsembles == 2
\* largest number of production sweeps of an ensemble
MaxProd == 1
\* largest number of sites NX*NY of the two-dimensional program
Max2DSites == 6
\* largest number of sweeps of one evolve call of the two-dimensional program
MaxSweeps2D == 1
\* largest number of sites of a lattice that evolve runs on
MaxEvolveSites == 3
\* largest number of sweeps of one evolve call
MaxSweeps == 2
\* maximum distances are drawn from 0, 1/2, 1, ..., MaxTwiceDist/2
MaxTwiceDist == 5
\* J/kT and h/kT of the checkerboard are drawn from -MaxCoupling..MaxCoupling
MaxCoupling == 2
\* a sequence of an input file has at most MaxSeqLen entries
MaxSeqLen == 3
\* largest lattice size an Rng is given
MaxRngSize == 3
\* largest seed an Rng is given
MaxSeed == 3

(***************************************************************************)
(* Index arithmetic (index.hpp, arithmetic.hpp): Index wraps size_t, so    *)
(* its arithmetic is modulo 2^w.  TLC's integers have 32 bits; the model   *)
(* keeps the wraparound with w = IndexBits.                                *)
(***************************************************************************)
IndexBits == 24
IndexModulus == 2 ^ IndexBits

IAdd(a, b) == (a + b) % IndexModulus
ISub(a, b) == (a - b + IndexModulus) % IndexModulus
IMul(a, b) == (a * b) % IndexModulus

Min(a, b) == IF a < b THEN a ELSE b

\* TLC passes the arguments of an operator unevaluated; a loop written as a
\* recursion evaluates what one iteration computed before it starts the next.
Evaluated(value) == value = value

(***************************************************************************)
(* lattice.cpp, lattice.hpp                                                *)
(***************************************************************************)
RECURSIVE latticeSizeFrom(_, _, _)
latticeSizeFrom(shape, k, size) ==
    IF k > Len(shape) THEN size
    ELSE latticeSizeFrom(shape, k + 1, IMul(size, shape[k]))

\* Index size{1}; for (Index d : shape) size = size*d;
latticeSize(shape) == latticeSizeFrom(shape, 1, 1)

\* Mutant of totalIndexFrom: the running total is scaled by the extent of the
\* previous dimension instead of the current one.
RECURSIVE totalIndexFromPreviousExtent(_, _, _, _)
totalIndexFromPreviousExtent(index, shape, i, total) ==
    IF i >= Len(shape) THEN total
    ELSE totalIndexFromPreviousExtent(index, shape, i + 1,
                                      IAdd(IMul(total, shape[i]), index[i + 1]))

\* total = index[0]; for i in 1..ndim-1: total = total*shape[i] + index[i]
RECURSIVE totalIndexFrom(_, _, _, _)
totalIndexFrom(index, shape, i, total) ==
    IF i >= Len(shape) THEN total
    ELSE totalIndexFrom(index, shape, i + 1,
                        IAdd(IMul(total, shape[i + 1]), index[i + 1]))

totalIndex(index, shape) == totalIndexFrom(index, shape, 1, index[1])

\* The loop of increment: i counts the positions tried so far, j = ndim-1-i.
RECURSIVE incrementFrom(_, _, _)
incrementFrom(index, shape, i) ==
    LET ndim == Len(index)
        j == ISub(ISub(ndim, 1), i)
    IN IF i >= ndim
       THEN [index EXCEPT ![1] = 0]
       ELSE IF IAdd(index[j + 1], 1) = shape[j + 1]
            THEN incrementFrom([index EXCEPT ![j + 1] = 0], shape, i + 1)
            ELSE [index EXCEPT ![j + 1] = IAdd(index[j + 1], 1)]

increment(index, shape) == incrementFrom(index, shape, 0)

incrementedAt(index, pos, shape) ==
    IF index[pos + 1] = ISub(shape[pos + 1], 1)
    THEN [index EXCEPT ![pos + 1] = 0]
    ELSE [index EXCEPT ![pos + 1] = IAdd(index[pos + 1], 1)]

\* Mutant of decrementedAt: no periodic wrap at coordinate 0.
decrementedAtNoWrap(index, pos, shape) ==
    IF index[pos + 1] = 0
    THEN index
    ELSE [index EXCEPT ![pos + 1] = ISub(index[pos + 1], 1)]

decrementedAt(index, pos, shape) ==
    IF index[pos + 1] = 0
    THEN [index EXCEPT ![pos + 1] = ISub(shape[pos + 1], 1)]
    ELSE [index EXCEPT ![pos + 1] = ISub(index[pos + 1], 1)]

\* Mutant of neighboursOfSite: the decremented neighbour is stored first.
RECURSIVE neighboursOfSiteSwapped(_, _, _, _, _)
neighboursOfSiteSwapped(neighbours, shape, index, i, d) ==
    LET ndim == Len(shape)
        up == IAdd(IMul(IMul(2, ndim), i), IMul(2, d))
        down == IAdd(up, 1)
    IN IF d >= ndim THEN neighbours
       ELSE neighboursOfSiteSwapped(
                [neighbours EXCEPT
                    ![up + 1] = totalIndex(decrementedAt(index, d, shape), shape),
                    ![down + 1] = totalIndex(incrementedAt(index, d, shape), shape)],
                shape, index, i, d + 1)

\* The inner loop of makeNeighbourList over the dimensions d of site i.
RECURSIVE neighboursOfSite(_, _, _, _, _)
neighboursOfSite(neighbours, shape, index, i, d) ==
    LET ndim == Len(shape)
        up == IAdd(IMul(IMul(2, ndim), i), IMul(2, d))
        down == IAdd(up, 1)
    IN IF d >= ndim THEN neighbours
       ELSE neighboursOfSite(
                [neighbours EXCEPT
                    ![up + 1] = totalIndex(incrementedAt(index, d, shape), shape),
                    ![down + 1] = totalIndex(decrementedAt(index, d, shape), shape)],
                shape, index, i, d + 1)

\* The outer loop of makeNeighbourList: i is the flat site, index its counter.
RECURSIVE neighbourLoop(_, _, _, _)
neighbourLoop(neighbours, shape, index, i) ==
    IF i >= latticeSize(shape) THEN neighbours
    ELSE LET written == neighboursOfSite(neighbours, shape, index, i, 0)
             incremented == increment(index, shape)
         IN IF Evaluated(written) /\ Evaluated(incremented)
            THEN neighbourLoop(written, shape, incremented, i + 1)
            ELSE written

makeNeighbourList(shape) ==
    LET latsize == latticeSize(shape)
        ndim == Len(shape)
    IN neighbourLoop([p \in 1..IMul(IMul(2, ndim), latsize) |-> 0], shape,
                     [d \in 1..ndim |-> 0], 0)

\* Mutant of mindist1d: the forward distance, without the minimum image.
mindist1dForward(x0, x1, nx) == ISub(IAdd(nx, x1), x0) % nx

mindist1d(x0, x1, nx) ==
    LET forward == ISub(IAdd(nx, x1), x0) % nx
        backward == nx - forward
    IN Min(forward, backward)

RECURSIVE sqEuclideanFrom(_, _, _)
sqEuclideanFrom(individual, k, sqDistance) ==
    IF k > Len(individual) THEN sqDistance
    ELSE sqEuclideanFrom(individual, k + 1, sqDistance + individual[k] * individual[k])

sqEuclidean(individual) == sqEuclideanFrom(individual, 1, 0)

RECURSIVE sqManhattanFrom(_, _, _)
sqManhattanFrom(individual, k, distance) ==
    IF k > Len(individual) THEN distance * distance
    ELSE sqManhattanFrom(individual, k + 1, distance + individual[k])

sqManhattan(individual) == sqManhattanFrom(individual, 1, 0)

\* Lattice::DistanceFn and the function the constructor selects for it
DistanceFns == {"EUCLIDEAN", "MANHATTAN"}

sqdistOf(distfn, individual) ==
    IF distfn = "EUCLIDEAN" THEN sqEuclidean(individual) ELSE sqManhattan(individual)

sqMindist(site0, site1, shape, distfn) ==
    sqdistOf(distfn, [dim \in 1..Len(shape) |->
                         mindist1d(site0[dim], site1[dim], shape[dim])])

\* std::optional<double> maxDist: has_value() and, as twice2 = 2*value(), the
\* double it holds (a multiple of 1/2)
NoMaxDist == [has |-> FALSE, twice |-> 0]
SomeMaxDist(twice) == [has |-> TRUE, twice |-> twice]

\* maxDist and std::sqrt(static_cast<double>(dist)) < maxDist.value():
\* sqrt(dist) < m iff m > 0 and 4*dist < (2m)^2
withinMaxDist(dist, maxDist) ==
    /\ maxDist.has
    /\ maxDist.twice > 0
    /\ 4 * dist < maxDist.twice * maxDist.twice

\* The body of the inner loop of buildDistMap for the pair (i, j).
distMapWith(distmap, dist, i, j, maxDist) ==
    IF withinMaxDist(dist, maxDist)
    THEN IF dist \in DOMAIN distmap
         THEN [distmap EXCEPT ![dist] = Append(@, <<i, j>>)]
         ELSE [k \in (DOMAIN distmap) \cup {dist} |->
                  IF k = dist THEN << <<i, j>> >> ELSE distmap[k]]
    ELSE distmap

\* for (Index j = i; j < latsize; ++j), site1 moving with j
RECURSIVE distInnerLoop(_, _, _, _, _, _, _, _)
distInnerLoop(distmap, shape, maxDist, distfn, site0, site1, i, j) ==
    IF j >= latticeSize(shape) THEN distmap
    ELSE LET dist == sqMindist(site0, site1, shape, distfn)
             inserted == distMapWith(distmap, dist, i, j, maxDist)
             incremented == increment(site1, shape)
         IN IF Evaluated(inserted) /\ Evaluated(incremented)
            THEN distInnerLoop(inserted, shape, maxDist, distfn, site0, incremented,
                               i, j + 1)
            ELSE inserted

\* the first site that the outer loop of buildDistMap does not visit
distOuterEnd(latsize) == ISub(latsize, 1)

\* for (Index i = 0_i; i < latsize-1_i; ++i), site0 moving with i
RECURSIVE distOuterLoop(_, _, _, _, _, _)
distOuterLoop(distmap, shape, maxDist, distfn, site0, i) ==
    IF i >= distOuterEnd(latticeSize(shape)) THEN distmap
    ELSE LET filled == distInnerLoop(distmap, shape, maxDist, distfn, site0, site0, i, i)
             incremented == increment(site0, shape)
         IN IF Evaluated(filled) /\ Evaluated(incremented)
            THEN distOuterLoop(filled, shape, maxDist, distfn, incremented, i + 1)
            ELSE filled

EmptyDistMap == [k \in {} |-> <<>>]

buildDistMap(shape, maxDist, distfn) ==
    distOuterLoop(EmptyDistMap, shape, maxDist, distfn,
                  [d \in 1..Len(shape) |-> 0], 0)

\* Lattice::Lattice: the four members, in the order of the initialiser list
Lattice(shape, maxDist, distfn) ==
    [neighbourList |-> makeNeighbourList(shape),
     shape |-> shape,
     size |-> latticeSize(shape),
     distMap |-> buildDistMap(shape, maxDist, distfn)]


\* Lattice::ndim
ndimOf(lat) == Len(lat.shape)

\* Lattice::neighbours: the range [begin, end) of the neighbours of a site
neighbours(lat, site) ==
    LET NDIM == ndimOf(lat)
        begin == IMul(IMul(2, NDIM), site)
    IN SubSeq(lat.neighbourList, begin + 1, begin + IMul(2, NDIM))

\* Lattice::neighbour: the element it returns once its range checks passed
neighbourAt(lat, site, neigh) ==
    lat.neighbourList[IAdd(IMul(IMul(2, ndimOf(lat)), site), neigh) + 1]

\* Lattice::neighbourList()[pos]
neighbourListAt(lat, pos) == lat.neighbourList[pos + 1]

RECURSIVE sortedFrom(_, _)
sortedFrom(keys, acc) ==
    IF keys = {} THEN acc
    ELSE LET least == CHOOSE k \in keys : \A other \in keys : k <= other
         IN sortedFrom(keys \ {least}, Append(acc, least))

\* mutant of sqDistances: the keys in descending order
sqDistancesDescending(lat) ==
    LET ascending == sortedFrom(DOMAIN lat.distMap, <<>>)
    IN [k \in 1..Len(ascending) |-> ascending[Len(ascending) + 1 - k]]

\* Lattice::sqDistances: the keys of the map, sorted
sqDistances(lat) == sortedFrom(DOMAIN lat.distMap, <<>>)

\* Lattice::pairsWithSqDistance, for a key of the map
pairsWithSqDistance(lat, sqDistance) == lat.distMap[sqDistance]

(***************************************************************************)
(* configuration.hpp, ising.hpp                                            *)
(***************************************************************************)
\* Configuration::Configuration: cfg_(size, initial)
Configuration(size, initial) == [i \in 1..size |-> initial]

\* Configuration::operator[] const, for an index in range
spinAt(cfg, idx) == cfg[idx + 1]

\* (*this)[idx] = (*this)[idx] * Spin(-1)
flip(cfg, idx) == [cfg EXCEPT ![idx + 1] = @ * (-1)]

RECURSIVE sumOfNeighboursFrom(_, _, _, _)
sumOfNeighboursFrom(cfg, range, k, neighbourSum) ==
    IF k > Len(range) THEN neighbourSum
    ELSE sumOfNeighboursFrom(cfg, range, k + 1, neighbourSum + spinAt(cfg, range[k]))

\* mutant of sumOfNeighbours: only the neighbours in the positive directions
\* (every other entry of the neighbour list) are summed
sumOfNeighboursForward(cfg, site, lat) ==
    LET range == neighbours(lat, site)
        sel == [k \in 1..(Len(range) \div 2) |-> range[2 * k - 1]]
    IN sumOfNeighboursFrom(cfg, sel, 1, 0)

sumOfNeighbours(cfg, site, lat) ==
    sumOfNeighboursFrom(cfg, neighbours(lat, site), 1, 0)

\* the loop of hamiltonian: <<coupling, magn>> after the sites i, i+1, ...
RECURSIVE hamiltonianSums(_, _, _, _, _)
hamiltonianSums(cfg, lat, i, coupling, magn) ==
    IF i >= lat.size THEN <<coupling, magn>>
    ELSE hamiltonianSums(cfg, lat, i + 1,
                         coupling + spinAt(cfg, i) * sumOfNeighbours(cfg, i, lat),
                         magn + spinAt(cfg, i))

\* mutant of hamiltonian: every link is counted from both of its ends
hamiltonianEveryLinkTwice(cfg, params, lat) ==
    LET sums == hamiltonianSums(cfg, lat, 0, 0, 0)
    IN (-params.JT * sums[1]) - params.hT * sums[2]

\* mutant of hamiltonian: the division by 2 is applied to the field term too
hamiltonianHalvedField(cfg, params, lat) ==
    LET sums == hamiltonianSums(cfg, lat, 0, 0, 0)
    IN (-params.JT * sums[1] - params.hT * sums[2]) \div 2

\* -params.JT*coupling/2.0 - params.hT*magn; JT*coupling is even for every
\* configuration (each link is counted from both of its ends)
hamiltonian(cfg, params, lat) ==
    LET sums == hamiltonianSums(cfg, lat, 0, 0, 0)
    IN (-params.JT * sums[1]) \div 2 - params.hT * sums[2]

deltaE(cfg, site, params, lat) ==
    2 * spinAt(cfg, site) * (params.JT * sumOfNeighbours(cfg, site, lat) + params.hT)

RECURSIVE spinSumFrom(_, _, _)
spinSumFrom(cfg, k, sum) ==
    IF k > Len(cfg) THEN sum ELSE spinSumFrom(cfg, k + 1, sum + cfg[k])

\* std::accumulate(begin(cfg), end(cfg), Spin{0}) / size, as <<sum, size>>
magnetisation(cfg) == <<spinSumFrom(cfg, 1, 0), Len(cfg)>>

(***************************************************************************)
(* The inputs the model draws.                                             *)
(***************************************************************************)
\* extents are at least 1 (a lattice has at least one site per dimension)
RECURSIVE ShapesOfDim(_)
ShapesOfDim(n) ==
    IF n = 0 THEN {<<>>}
    ELSE {Append(shape, extent) : shape \in ShapesOfDim(n - 1), extent \in 1..MaxExtent}

ShapesUpTo(maxSites) ==
    {shape \in UNION {ShapesOfDim(n) : n \in 1..MaxDim} : latticeSize(shape) <= maxSites}

\* no maximum distance, or 0, 1/2, 1, ... as twice the distance
MaxDists == {NoMaxDist} \cup {SomeMaxDist(twice) : twice \in 0..MaxTwiceDist}

JTValues == {-1, 0, 1}
hTValues == {-1, 0, 1}
ParameterValues == [JT : JTValues, hT : hTValues]

\* Spin is ArithmeticType<int, SpinTag>: 0 is a Spin (the sums start from it)
SpinValues == {-1, 0, 1}
SpinDomain == {-1, 1}

\* before construction: no Lattice (no lattice has 0 sites), no Configuration
NoLattice == [neighbourList |-> <<>>, shape |-> <<>>, size |-> 0, distMap |-> EmptyDistMap]
NoLatArgs == [maxDist |-> NoMaxDist, distfn |-> "EUCLIDEAN"]
NoCfg == <<>>
NoRet == [op |-> "none"]

\* no ProgConfig loaded
NoInput == [latticeShape |-> <<>>, start |-> "cold", params |-> <<>>, nthermInit |-> 0,
            ntherm |-> <<>>, nprod |-> <<>>, writeCfg |-> FALSE]

\* no Observables: evolve is passed nullptr
NoObs == [present |-> FALSE, energy |-> <<>>, magnetisation |-> <<>>,
          corr |-> [sqDistances |-> <<>>, correlator |-> <<>>]]
NoCall == [cfg |-> NoCfg, energy |-> 0, nsweep |-> 0, obs |-> NoObs, extraMeas |-> <<>>]
NoAttempt == [delta |-> 0, draws |-> <<>>, real |-> 0, accepted |-> FALSE]
NoTally == [genIndex |-> 0, genReal |-> 0, positive |-> 0]
\* no loop in progress
NoLoop == [fn |-> "none", at |-> "none", shape |-> <<>>, maxDist |-> NoMaxDist,
           distfn |-> "EUCLIDEAN", i |-> 0, j |-> 0, index |-> <<>>, site1 |-> <<>>,
           neighbours |-> <<>>, distmap |-> EmptyDistMap, visited |-> <<>>,
           subs |-> {}]

\* nothing written yet
NoWrite == [done |-> FALSE, ensemble |-> 0, samples |-> 0, reads |-> {}]

\* main not started
NoProg == [at |-> "none", input |-> NoInput, i |-> 0, cfg |-> NoCfg, energy |-> 0,
           written |-> NoWrite]

\* an Rng nothing was drawn from
NoRng == [rng |-> 0, indexDist |-> [a |-> 0, b |-> 0], realDist |-> [a |-> 0, b |-> 1],
          spinDist |-> [a |-> 0, b |-> 1]]

VARIABLES
    ndebug,     \* the build: TRUE when NDEBUG is defined (ndebug.hpp)
    lat,        \* the Lattice
    latArgs,    \* the maxDist and distfn the Lattice was constructed with
    cfg,        \* the Configuration
    params,     \* the Parameters
    ret,        \* what the last call returned or threw
    obs,        \* the Observables evolve is given (NoObs: nullptr)
    call,       \* the arguments evolve was called with
    energy,     \* evolve's parameter energy, updated as the run goes
    naccept,    \* evolve's local naccept
    sweep,      \* evolve's loop counter sweep
    step,       \* evolve's loop counter step
    pc,         \* evolve's position: "idle", "step", "measure", "return", "done"
    attempt,    \* the latest iteration of the step loop: delta, the draws in order,
                \* what genReal returned (thousandths), whether the flip was accepted
    tally,      \* how often evolve of the n-dimensional program has called
                \* rng.genIndex and rng.genReal so far,
                \* and how many of its iterations had delta > 0
    invoked,    \* the measurements evolve's latest step called, in their order,
                \* each with the arguments it was given
    ncalls,     \* how often evolve has called each element of extraMeas so far
    rng,        \* the Rng: its generator and its distributions
    twin,       \* an Rng built and drawn from like rng whose lattice size was never
                \* set again, and the lattice size rng was given last
    loop,       \* the loop of makeNeighbourList or buildDistMap in progress: its
                \* position, its counters and what it has built
    prog        \* main: its position, its input, its locals i, cfg and energy, and
                \* what its latest write(outdir, i, obs, params, lat) read

evolveVars == <<obs, call, energy, naccept, sweep, step, pc, attempt, tally, invoked, ncalls>>

rngVars == <<rng, twin>>

vars == <<ndebug, lat, latArgs, cfg, params, ret, evolveVars, rngVars, loop, prog>>

\* no construction loop under observation
LoopIdle == loop = NoLoop

\* main is not running
ProgIdle == prog = NoProg

\* no Rng under observation
RngIdle ==
    /\ rng = NoRng
    /\ twin = [rng |-> NoRng, latsize |-> 0]

\* no evolve call in progress
EvolveIdle ==
    /\ obs = NoObs
    /\ call = NoCall
    /\ energy = 0
    /\ naccept = 0
    /\ sweep = 0
    /\ step = 0
    /\ pc = "idle"
    /\ attempt = NoAttempt
    /\ tally = NoTally
    /\ invoked = <<>>
    /\ ncalls = <<>>

(***************************************************************************)
(* SpecLattice: construction of a Lattice and its accessors.               *)
(***************************************************************************)
InitLattice ==
    /\ ndebug \in BOOLEAN
    /\ lat = NoLattice
    /\ latArgs = NoLatArgs
    /\ cfg = NoCfg
    /\ params = [JT |-> 0, hT |-> 0]
    /\ ret = NoRet
    /\ EvolveIdle
    /\ RngIdle
    /\ LoopIdle
    /\ ProgIdle

\* Lattice lat{shape, maxDist, distfn}
ConstructLattice ==
    /\ lat = NoLattice
    /\ \E shape \in ShapesUpTo(MaxSites), maxDist \in MaxDists, distfn \in DistanceFns :
          /\ lat' = Lattice(shape, maxDist, distfn)
          /\ latArgs' = [maxDist |-> maxDist, distfn |-> distfn]
    /\ ret' = [op |-> "Lattice"]
    /\ UNCHANGED <<prog, loop, rngVars, ndebug, cfg, params, evolveVars>>

\* The accessors are const and the Lattice is immutable: what a call returns
\* does not depend on the calls before it.  Each is applied to the lattice as
\* constructed (Constructed), and ret holds what that one call returned.
Constructed == ret.op = "Lattice"

\* lat.neighbour(site, neigh), arguments in range
CallNeighbour ==
    /\ Constructed
    /\ \E site \in 0..(lat.size - 1), neigh \in 0..(2 * ndimOf(lat) - 1) :
          ret' = [op |-> "neighbour", site |-> site, neigh |-> neigh,
                  value |-> neighbourAt(lat, site, neigh)]
    /\ UNCHANGED <<prog, loop, rngVars, ndebug, lat, latArgs, cfg, params, evolveVars>>

\* lat.neighbours(site), site in range
CallNeighbours ==
    /\ Constructed
    /\ \E site \in 0..(lat.size - 1) :
          ret' = [op |-> "neighbours", site |-> site, value |-> neighbours(lat, site)]
    /\ UNCHANGED <<prog, loop, rngVars, ndebug, lat, latArgs, cfg, params, evolveVars>>

\* totalIndex(index, lat) for the coordinates of a site of the lattice
CallTotalIndex ==
    /\ Constructed
    /\ \E index \in [1..ndimOf(lat) -> 0..(MaxExtent - 1)] :
          /\ \A d \in 1..ndimOf(lat) : index[d] < lat.shape[d]
          /\ ret' = [op |-> "totalIndex", index |-> index,
                     value |-> totalIndex(index, lat.shape)]
    /\ UNCHANGED <<prog, loop, rngVars, ndebug, lat, latArgs, cfg, params, evolveVars>>

NextLattice ==
    \/ ConstructLattice
    \/ CallNeighbour
    \/ CallNeighbours
    \/ CallTotalIndex

SpecLattice == InitLattice /\ [][NextLattice]_vars

(***************************************************************************)
(* SpecConfiguration: a Configuration on its own, built and written        *)
(* through its public interface.                                           *)
(***************************************************************************)
\* Rng::genSpin: spinDist yields 0 or 1
genSpin(bit) == IF bit = 0 THEN -1 ELSE 1

\* randomCfg: Configuration cfg(latsize), then every element from genSpin
randomCfg(latsize, bits) ==
    [i \in 1..Len(Configuration(latsize, 1)) |-> genSpin(bits[i])]

\* cfg[idx] = value through the non-const operator[], idx in range
assignSpin(config, idx, value) == [config EXCEPT ![idx + 1] = value]

\* the constructor's check, compiled only into a build without NDEBUG
constructorThrows(build, initial) == ~build /\ initial # 1 /\ initial # -1

InitConfiguration ==
    /\ ndebug \in BOOLEAN
    /\ lat = NoLattice
    /\ latArgs = NoLatArgs
    /\ cfg = NoCfg
    /\ params = [JT |-> 0, hT |-> 0]
    /\ ret = NoRet
    /\ EvolveIdle
    /\ RngIdle
    /\ LoopIdle
    /\ ProgIdle

\* cfg = Configuration{size, initial}
ConstructConfiguration ==
    /\ \E size \in 1..MaxSpinSites, initial \in SpinValues :
          IF constructorThrows(ndebug, initial)
          THEN /\ ret' = [op |-> "Configuration", threw |-> "runtime_error"]
               /\ cfg' = cfg
          ELSE /\ ret' = [op |-> "Configuration", threw |-> "none"]
               /\ cfg' = Configuration(size, initial)
    /\ UNCHANGED <<prog, loop, rngVars, ndebug, lat, latArgs, params, evolveVars>>

\* cfg = randomCfg(size, rng)
RandomCfg ==
    /\ \E size \in 1..MaxSpinSites :
          \E bits \in [1..size -> {0, 1}] : cfg' = randomCfg(size, bits)
    /\ ret' = [op |-> "randomCfg", threw |-> "none"]
    /\ UNCHANGED <<prog, loop, rngVars, ndebug, lat, latArgs, params, evolveVars>>

\* cfg[idx] = value, any Spin
WriteSpin ==
    /\ cfg # NoCfg
    /\ \E idx \in 0..(Len(cfg) - 1), value \in SpinValues :
          cfg' = assignSpin(cfg, idx, value)
    /\ ret' = [op |-> "operator[]", threw |-> "none"]
    /\ UNCHANGED <<prog, loop, rngVars, ndebug, lat, latArgs, params, evolveVars>>

\* cfg.flip(idx)
FlipSpin ==
    /\ cfg # NoCfg
    /\ pc = "idle"
    /\ \E idx \in 0..(Len(cfg) - 1) : cfg' = flip(cfg, idx)
    /\ ret' = [op |-> "flip", threw |-> "none"]
    /\ UNCHANGED <<prog, loop, rngVars, ndebug, lat, latArgs, params, evolveVars>>

NextConfiguration ==
    \/ ConstructConfiguration
    \/ RandomCfg
    \/ WriteSpin
    \/ FlipSpin

SpecConfiguration == InitConfiguration /\ [][NextConfiguration]_vars

(***************************************************************************)
(* SpecIsing: the energy functions applied to a lattice, a configuration   *)
(* of +1/-1 spins on it and parameters.                                    *)
(***************************************************************************)
\* the lattices of the energy functions: no distance map is needed
IsingLattices(maxSites) ==
    {Lattice(shape, NoMaxDist, "EUCLIDEAN") : shape \in ShapesUpTo(maxSites)}

SpinConfigurations(size) == [1..size -> SpinDomain]

InitIsing ==
    /\ ndebug \in BOOLEAN
    /\ lat \in IsingLattices(MaxSpinSites)
    /\ latArgs = NoLatArgs
    /\ cfg \in SpinConfigurations(lat.size)
    /\ params \in ParameterValues
    /\ ret = NoRet
    /\ EvolveIdle
    /\ RngIdle
    /\ LoopIdle
    /\ ProgIdle

\* hamiltonian(cfg, params, lat)
CallHamiltonian ==
    /\ pc = "idle"
    /\ ret' = [op |-> "hamiltonian", value |-> hamiltonian(cfg, params, lat)]
    /\ UNCHANGED <<prog, loop, rngVars, ndebug, lat, latArgs, cfg, params, evolveVars>>

\* deltaE(cfg, site, params, lat), site in range
CallDeltaE ==
    /\ pc = "idle"
    /\ \E site \in 0..(lat.size - 1) :
          ret' = [op |-> "deltaE", site |-> site,
                  value |-> deltaE(cfg, site, params, lat)]
    /\ UNCHANGED <<prog, loop, rngVars, ndebug, lat, latArgs, cfg, params, evolveVars>>

NextIsing ==
    \/ CallHamiltonian
    \/ CallDeltaE
    \/ FlipSpin

SpecIsing == InitIsing /\ [][NextIsing]_vars

(***************************************************************************)
(* SpecEvolve: one call of evolve, an iteration of the step loop at a time.*)
(***************************************************************************)
\* Observables::Correlator::Correlator: one empty series per squared distance
Correlator(sqd) == [sqDistances |-> sqd, correlator |-> [k \in 1..Len(sqd) |-> <<>>]]

\* Observables::Observables
Observables(l) ==
    [present |-> TRUE, energy |-> <<>>, magnetisation |-> <<>>,
     corr |-> Correlator(sqDistances(l))]

\* mutant of correlatorSums: the pairs are summed but not counted
RECURSIVE correlatorSumsUncounted(_, _, _, _, _)
correlatorSumsUncounted(pairs, config, k, aux, n) ==
    IF k > Len(pairs) THEN <<aux, n>>
    ELSE correlatorSumsUncounted(pairs, config, k + 1,
                                 aux + spinAt(config, pairs[k][1]) * spinAt(config, pairs[k][2]),
                                 n)

\* the inner loop of measureCorrelator: <<aux, n>> after the pairs k, k+1, ...
RECURSIVE correlatorSums(_, _, _, _, _)
correlatorSums(pairs, config, k, aux, n) ==
    IF k > Len(pairs) THEN <<aux, n>>
    ELSE correlatorSums(pairs, config, k + 1,
                        aux + spinAt(config, pairs[k][1]) * spinAt(config, pairs[k][2]),
                        n + 1)

\* mutant of measureCorrelator: only the first bin receives a value
measureCorrelatorFirstBin(corr, l, config) ==
    [corr EXCEPT !.correlator =
        [sqdi \in 1..Len(corr.sqDistances) |->
            IF sqdi > 1 THEN corr.correlator[sqdi]
            ELSE Append(corr.correlator[sqdi],
                        correlatorSums(pairsWithSqDistance(l, corr.sqDistances[sqdi]),
                                       config, 1, 0, 0))]]

\* measureCorrelator: aux/n appended to every bin, as <<aux, n>>
measureCorrelator(corr, l, config) ==
    [corr EXCEPT !.correlator =
        [sqdi \in 1..Len(corr.sqDistances) |->
            Append(corr.correlator[sqdi],
                   correlatorSums(pairsWithSqDistance(l, corr.sqDistances[sqdi]),
                                  config, 1, 0, 0))]]

\* measure: nothing without an Observables
measure(o, l, config, e) ==
    IF o.present
    THEN [o EXCEPT !.energy = Append(@, e),
                   !.magnetisation = Append(@, magnetisation(config)),
                   !.corr = measureCorrelator(@, l, config)]
    ELSE o

\* floor(1000 * exp(-delta)) for an integer delta
expMilli(delta) ==
    CASE delta <= 0 -> 1000
      [] delta = 1 -> 367
      [] delta = 2 -> 135
      [] delta = 3 -> 49
      [] delta = 4 -> 18
      [] delta = 5 -> 6
      [] delta = 6 -> 2
      [] OTHER -> 0

\* exp(-delta) > real for delta > 0 and real given in thousandths:
\* 1000*exp(-delta) is no integer, so it exceeds m exactly if its floor is >= m
expExceeds(delta, realMilli) == expMilli(delta) >= realMilli

\* genReal() is in [0, 1): the draws of the model, in thousandths
RealDraws == {0, 100, 999}

\* mutant of acceptReject: genReal is drawn before delta is looked at
acceptRejectAlwaysDraws(delta) ==
    {[accepted |-> delta <= 0 \/ expExceeds(delta, realMilli),
      draws |-> <<"genIndex", "genReal">>, real |-> realMilli] : realMilli \in RealDraws}

\* delta <= 0 or exp(-delta) > rng.genReal(): `or' evaluates its right side,
\* and with it genReal, only if delta <= 0 is false.  The outcomes the test
\* can have, one for each value genReal can return.
acceptReject(delta) ==
    IF delta <= 0
    THEN {[accepted |-> TRUE, draws |-> <<"genIndex">>, real |-> 0]}
    ELSE {[accepted |-> expExceeds(delta, realMilli),
           draws |-> <<"genIndex", "genReal">>, real |-> realMilli] : realMilli \in RealDraws}

\* mutant of accepted: the running energy is left as it was
acceptedWithoutEnergy(config, e, n, site, delta) ==
    [cfg |-> flip(config, site), energy |-> e, naccept |-> n + 1]

\* the body of the if: cfg.flip(site); energy += delta; ++naccept
accepted(config, e, n, site, delta) ==
    [cfg |-> flip(config, site), energy |-> e + delta, naccept |-> n + 1]

\* the callables the model registers as extraMeas, by name
Callbacks == <<"first", "second">>

\* mutant of extraMeasurements: the loop runs from the last element to the first
RECURSIVE extraMeasurementsReversed(_, _, _, _, _)
extraMeasurementsReversed(extraMeas, config, e, k, calls) ==
    IF k > Len(extraMeas) THEN calls
    ELSE extraMeasurementsReversed(extraMeas, config, e, k + 1,
             Append(calls, [who |-> extraMeas[Len(extraMeas) + 1 - k],
                            cfg |-> config, energy |-> e]))

\* for (auto const &meas : extraMeas) meas(cfg, energy): the calls made from
\* element k on, appended to calls
RECURSIVE extraMeasurements(_, _, _, _, _)
extraMeasurements(extraMeas, config, e, k, calls) ==
    IF k > Len(extraMeas) THEN calls
    ELSE extraMeasurements(extraMeas, config, e, k + 1,
             Append(calls, [who |-> extraMeas[k], cfg |-> config, energy |-> e]))

\* the end of a sweep: the call of measure, then the extra measurements
endOfSweep(extraMeas, config, e) ==
    extraMeasurements(extraMeas, config, e, 1,
                      <<[who |-> "measure", cfg |-> config, energy |-> e]>>)

\* how many of the calls went to the callable who
RECURSIVE callsOf(_, _, _)
callsOf(calls, who, k) ==
    IF k > Len(calls) THEN 0
    ELSE (IF calls[k].who = who THEN 1 ELSE 0) + callsOf(calls, who, k + 1)

\* where evolve stands once `sweep' sweeps are complete
afterSweeps(done, nsweep) == IF done < nsweep THEN "step" ELSE "return"

\* where evolve stands once `done' iterations of the step loop are complete
afterSteps(done, latsize) == IF done < latsize THEN "step" ELSE "measure"

\* evolve runs on lattices of one dimension here: the energy functions are
\* applied to the other shapes in SpecIsing
EvolveShapes == {shape \in ShapesUpTo(MaxEvolveSites) : Len(shape) = 1}

EvolveLattices ==
    {Lattice(shape, SomeMaxDist(MaxTwiceDist), "EUCLIDEAN") : shape \in EvolveShapes}

\* the Parameters evolve runs with: a coupling of either sign, with and
\* without a field
EvolveParameterValues == {p \in ParameterValues : p.JT # 0 /\ p.hT <= 0}

\* the state main calls evolve in after a cold start, Configuration{size, +1},
\* and its mirror image
InitEvolve ==
    /\ ndebug = FALSE
    /\ lat \in EvolveLattices
    /\ latArgs = [maxDist |-> SomeMaxDist(MaxTwiceDist), distfn |-> "EUCLIDEAN"]
    /\ \E initial \in SpinDomain : cfg = Configuration(lat.size, initial)
    /\ params \in EvolveParameterValues
    /\ ret = NoRet
    /\ EvolveIdle
    /\ RngIdle
    /\ LoopIdle
    /\ ProgIdle

\* what evolve is given to measure with: nothing (main's thermalisation),
\* extra measurements only, an Observables and extra measurements (main's
\* production run that writes configurations)
MeasurementSetups(l) ==
    {[obs |-> NoObs, extraMeas |-> <<>>],
     [obs |-> NoObs, extraMeas |-> Callbacks],
     [obs |-> Observables(l), extraMeas |-> Callbacks]}

\* evolve(cfg, energy, params, lat, rng, nsweep, obs, extraMeas): the starting energy is
\* the caller's, the true one or main's 0.0
CallEvolve ==
    /\ pc = "idle"
    /\ ret = NoRet
    /\ \E e \in {0, hamiltonian(cfg, params, lat)}, nsweep \in 0..MaxSweeps,
          setup \in MeasurementSetups(lat) :
          /\ energy' = e
          /\ obs' = setup.obs
          /\ call' = [cfg |-> cfg, energy |-> e, nsweep |-> nsweep, obs |-> setup.obs,
                      extraMeas |-> setup.extraMeas]
          /\ ncalls' = [k \in 1..Len(setup.extraMeas) |-> 0]
          /\ pc' = afterSweeps(0, nsweep)
    /\ naccept' = 0
    /\ sweep' = 0
    /\ step' = 0
    /\ invoked' = <<>>
    /\ UNCHANGED <<prog, loop, rngVars, ndebug, lat, latArgs, cfg, params, ret, attempt, tally>>

\* mutant of Attempt: cfg and energy are references to the caller's objects
\* (Configuration &cfg, double &energy)
AttemptByReference ==
    /\ pc = "step"
    /\ \E site \in 0..(lat.size - 1) :
          LET delta == deltaE(cfg, site, params, lat)
          IN \E test \in acceptReject(delta) :
                LET after == IF test.accepted
                             THEN accepted(cfg, energy, naccept, site, delta)
                             ELSE [cfg |-> cfg, energy |-> energy, naccept |-> naccept]
                IN /\ cfg' = after.cfg
                   /\ energy' = after.energy
                   /\ naccept' = after.naccept
                   /\ call' = [call EXCEPT !.cfg = after.cfg, !.energy = after.energy]
                   /\ attempt' = [delta |-> delta, draws |-> test.draws,
                                  real |-> test.real, accepted |-> test.accepted]
                   /\ tally' = [genIndex |-> tally.genIndex + 1,
                                genReal |-> tally.genReal + (Len(test.draws) - 1),
                                positive |-> tally.positive + (IF delta > 0 THEN 1 ELSE 0)]
    /\ step' = step + 1
    /\ pc' = afterSteps(step + 1, lat.size)
    /\ invoked' = <<>>
    /\ UNCHANGED <<prog, loop, rngVars, ndebug, lat, latArgs, params, ret, obs, sweep, ncalls>>

\* one iteration of the step loop
Attempt ==
    /\ pc = "step"
    /\ \E site \in 0..(lat.size - 1) :
          LET delta == deltaE(cfg, site, params, lat)
          IN \E test \in acceptReject(delta) :
                LET after == IF test.accepted
                             THEN accepted(cfg, energy, naccept, site, delta)
                             ELSE [cfg |-> cfg, energy |-> energy, naccept |-> naccept]
                IN /\ cfg' = after.cfg
                   /\ energy' = after.energy
                   /\ naccept' = after.naccept
                   /\ attempt' = [delta |-> delta, draws |-> test.draws,
                                  real |-> test.real, accepted |-> test.accepted]
                   /\ tally' = [genIndex |-> tally.genIndex + 1,
                                genReal |-> tally.genReal + (Len(test.draws) - 1),
                                positive |-> tally.positive + (IF delta > 0 THEN 1 ELSE 0)]
    /\ step' = step + 1
    /\ pc' = afterSteps(step + 1, lat.size)
    /\ invoked' = <<>>
    /\ UNCHANGED <<prog, loop, rngVars, ndebug, lat, latArgs, params, ret, obs, call, sweep, ncalls>>

\* the end of a sweep: measure(obs, lat, cfg, energy), the extra
\* measurements, then ++sweep
Measure ==
    /\ pc = "measure"
    /\ obs' = measure(obs, lat, cfg, energy)
    /\ invoked' = endOfSweep(call.extraMeas, cfg, energy)
    /\ ncalls' = [k \in 1..Len(ncalls) |->
                     ncalls[k] + callsOf(invoked', call.extraMeas[k], 1)]
    /\ sweep' = sweep + 1
    /\ step' = 0
    /\ pc' = afterSweeps(sweep + 1, call.nsweep)
    /\ UNCHANGED <<prog, loop, rngVars, ndebug, lat, latArgs, cfg, params, ret, call, energy, naccept,
                   attempt, tally>>

\* return make_tuple(cfg, energy, naccept / nsweep / size(lat)); the rate is
\* kept as <<naccept, nsweep, size>>
Return ==
    /\ pc = "return"
    /\ ret' = [op |-> "evolve", cfg |-> cfg, energy |-> energy,
               rate |-> <<naccept, call.nsweep, lat.size>>]
    /\ pc' = "done"
    /\ invoked' = <<>>
    /\ UNCHANGED <<prog, loop, rngVars, ndebug, lat, latArgs, cfg, params, obs, call, energy, naccept,
                   sweep, step, attempt, tally, ncalls>>

NextEvolve ==
    \/ CallEvolve
    \/ Attempt
    \/ Measure
    \/ Return

SpecEvolve == InitEvolve /\ [][NextEvolve]_vars

(***************************************************************************)
(* SpecAccessors: the accessors of a Lattice that check their arguments,   *)
(* called with arguments in and out of range, in both builds.  What a call *)
(* does is a record [threw, value]; threw is "none" when it returns.       *)
(***************************************************************************)
\* a read of a std::vector beyond its end is undefined: the build may return
\* any Index or end the program
UndefinedRead ==
    {[threw |-> "none", value |-> v] : v \in 0..MaxSpinSites}
        \cup {[threw |-> "crash", value |-> 0]}

\* Lattice::extend: the outcomes of extend(dim) in a build with ndebug = build
extend(l, build, dim) ==
    IF ~build /\ dim >= Len(l.shape)
    THEN {[threw |-> "out_of_range", value |-> 0]}
    ELSE IF dim < Len(l.shape)
         THEN {[threw |-> "none", value |-> l.shape[dim + 1]]}
         ELSE UndefinedRead

\* Lattice::neighbour: the outcomes of neighbour(site, neigh) in a build with
\* ndebug = build
neighbour(l, build, site, neigh) ==
    IF ~build /\ (site >= l.size \/ neigh >= IMul(2, ndimOf(l)))
    THEN {[threw |-> "out_of_range", value |-> 0]}
    ELSE LET pos == IAdd(IMul(IMul(2, ndimOf(l)), site), neigh)
         IN IF pos < Len(l.neighbourList)
            THEN {[threw |-> "none", value |-> neighbourListAt(l, pos)]}
            ELSE UndefinedRead

\* distMap_.at(sqDistance): std::map::at throws std::out_of_range for a
\* missing key
distMapAt(l, sqDistance) ==
    IF sqDistance \in DOMAIN l.distMap
    THEN [threw |-> "none", value |-> pairsWithSqDistance(l, sqDistance)]
    ELSE [threw |-> "out_of_range", value |-> <<>>]

AccessorLattices ==
    {Lattice(shape, maxDist, distfn) :
        shape \in ShapesUpTo(MaxSpinSites), maxDist \in MaxDists, distfn \in DistanceFns}

InitAccessors ==
    /\ ndebug \in BOOLEAN
    /\ lat \in AccessorLattices
    /\ latArgs = NoLatArgs
    /\ cfg = NoCfg
    /\ params = [JT |-> 0, hT |-> 0]
    /\ ret = NoRet
    /\ EvolveIdle
    /\ RngIdle
    /\ LoopIdle
    /\ ProgIdle

\* lat.extend(dim), any dim
CallExtend ==
    /\ \E dim \in 0..MaxDim :
          \E outcome \in extend(lat, ndebug, dim) :
             ret' = [op |-> "extend", dim |-> dim, inDomain |-> dim < ndimOf(lat),
                     threw |-> outcome.threw, value |-> outcome.value]
    /\ UNCHANGED <<prog, loop, rngVars, ndebug, lat, latArgs, cfg, params, evolveVars>>

\* lat.neighbour(site, neigh), any site and neigh
CallNeighbourOf ==
    /\ \E site \in 0..MaxSpinSites, neigh \in 0..(2 * MaxDim) :
          \E outcome \in neighbour(lat, ndebug, site, neigh) :
             ret' = [op |-> "neighbour", site |-> site, neigh |-> neigh,
                     inDomain |-> site < lat.size /\ neigh < 2 * ndimOf(lat),
                     threw |-> outcome.threw, value |-> outcome.value]
    /\ UNCHANGED <<prog, loop, rngVars, ndebug, lat, latArgs, cfg, params, evolveVars>>

\* lat.pairsWithSqDistance(sqDistance), any sqDistance
CallPairsWithSqDistance ==
    /\ \E sqDistance \in 0..MaxTwiceDist :
          LET outcome == distMapAt(lat, sqDistance)
          IN ret' = [op |-> "pairsWithSqDistance", sqDistance |-> sqDistance,
                     inDomain |-> sqDistance \in DOMAIN lat.distMap,
                     threw |-> outcome.threw, value |-> outcome.value]
    /\ UNCHANGED <<prog, loop, rngVars, ndebug, lat, latArgs, cfg, params, evolveVars>>

NextAccessors ==
    \/ CallExtend
    \/ CallNeighbourOf
    \/ CallPairsWithSqDistance

SpecAccessors == InitAccessors /\ [][NextAccessors]_vars

(***************************************************************************)
(* SpecConstruction: the loops of makeNeighbourList and buildDistMap, an   *)
(* iteration at a time.  loop.at is the position: "outer" before the test  *)
(* of the outer loop, "inner" before the test of the inner loop, "done"    *)
(* after the return.  loop.visited lists the sites the outer loop body ran *)
(* for (the site its counter stood at), loop.subs the Index subtractions   *)
(* of the latest step as pairs <<minuend, subtrahend>>.                    *)
(***************************************************************************)
\* the subtractions of increment: ndim-1_i-i in every iteration it runs
RECURSIVE incrementSubsFrom(_, _, _)
incrementSubsFrom(index, shape, i) ==
    LET ndim == Len(index)
        j == ISub(ISub(ndim, 1), i)
    IN IF i >= ndim THEN {}
       ELSE {<<ndim, 1>>, <<ISub(ndim, 1), i>>}
               \cup (IF IAdd(index[j + 1], 1) = shape[j + 1]
                     THEN incrementSubsFrom([index EXCEPT ![j + 1] = 0], shape, i + 1)
                     ELSE {})

incrementSubs(index, shape) == incrementSubsFrom(index, shape, 0)

\* the subtraction of incrementedAt: shape[pos]-1_i in the test
incrementedAtSubs(index, pos, shape) == {<<shape[pos + 1], 1>>}

\* mutant of decrementedAtSubs: index[pos]-1_i without the periodic branch
decrementedAtSubsNoBranch(index, pos, shape) == {<<index[pos + 1], 1>>}

\* the subtraction of decrementedAt: shape[pos]-1_i in the periodic branch,
\* index[pos]-1_i in the other
decrementedAtSubs(index, pos, shape) ==
    IF index[pos + 1] = 0 THEN {<<shape[pos + 1], 1>>} ELSE {<<index[pos + 1], 1>>}

\* the Index subtraction of mindist1d: nx + x1 - x0 (backward is computed
\* in int)
mindist1dSubs(x0, x1, nx) == {<<IAdd(nx, x1), x0>>}

\* the subtractions of one iteration of the outer loop of makeNeighbourList
neighbourIterationSubs(index, shape) ==
    UNION {incrementedAtSubs(index, d, shape) \cup decrementedAtSubs(index, d, shape) :
              d \in 0..(Len(shape) - 1)}
        \cup incrementSubs(index, shape)

\* the subtractions of one iteration of the inner loop of buildDistMap
distIterationSubs(site0, site1, shape) ==
    UNION {mindist1dSubs(site0[dim], site1[dim], shape[dim]) : dim \in 1..Len(shape)}
        \cup incrementSubs(site1, shape)

InitConstruction ==
    /\ ndebug = FALSE
    /\ lat = NoLattice
    /\ latArgs = NoLatArgs
    /\ cfg = NoCfg
    /\ params = [JT |-> 0, hT |-> 0]
    /\ ret = NoRet
    /\ EvolveIdle
    /\ RngIdle
    /\ LoopIdle
    /\ ProgIdle

\* makeNeighbourList(shape) up to the first test of its loop
CallMakeNeighbourList ==
    /\ loop.fn = "none"
    /\ \E shape \in ShapesUpTo(MaxSites) :
          loop' = [NoLoop EXCEPT
                      !.fn = "makeNeighbourList", !.at = "outer", !.shape = shape,
                      !.index = [d \in 1..Len(shape) |-> 0],
                      !.neighbours = [p \in 1..IMul(IMul(2, Len(shape)), latticeSize(shape))
                                         |-> 0]]
    /\ UNCHANGED <<prog, rngVars, ndebug, lat, latArgs, cfg, params, ret, evolveVars>>

\* one iteration of the loop of makeNeighbourList: the neighbours of site i,
\* increment(index, shape), ++i
NeighbourIteration ==
    /\ loop.fn = "makeNeighbourList"
    /\ loop.at = "outer"
    /\ loop.i < latticeSize(loop.shape)
    /\ loop' = [loop EXCEPT
                   !.neighbours = neighboursOfSite(@, loop.shape, loop.index, loop.i, 0),
                   !.index = increment(@, loop.shape),
                   !.i = IAdd(@, 1),
                   !.visited = Append(@, totalIndex(loop.index, loop.shape)),
                   !.subs = neighbourIterationSubs(loop.index, loop.shape)]
    /\ UNCHANGED <<prog, rngVars, ndebug, lat, latArgs, cfg, params, ret, evolveVars>>

\* the loop of makeNeighbourList ends: return neighbours
NeighbourReturn ==
    /\ loop.fn = "makeNeighbourList"
    /\ loop.at = "outer"
    /\ loop.i >= latticeSize(loop.shape)
    /\ loop' = [loop EXCEPT !.at = "done", !.subs = {}]
    /\ UNCHANGED <<prog, rngVars, ndebug, lat, latArgs, cfg, params, ret, evolveVars>>

\* buildDistMap(shape, maxDist, sqdist) up to the first test of its outer loop
CallBuildDistMap ==
    /\ loop.fn = "none"
    /\ \E shape \in ShapesUpTo(MaxSites), maxDist \in MaxDists, distfn \in DistanceFns :
          loop' = [NoLoop EXCEPT
                      !.fn = "buildDistMap", !.at = "outer", !.shape = shape,
                      !.maxDist = maxDist, !.distfn = distfn,
                      !.index = [d \in 1..Len(shape) |-> 0]]
    /\ UNCHANGED <<prog, rngVars, ndebug, lat, latArgs, cfg, params, ret, evolveVars>>

\* the test i < latsize-1_i of the outer loop: site1 = site0 and j = i, or
\* return distmap
DistOuterTest ==
    /\ loop.fn = "buildDistMap"
    /\ loop.at = "outer"
    /\ LET latsize == latticeSize(loop.shape)
       IN loop' = IF loop.i < distOuterEnd(latsize)
                  THEN [loop EXCEPT !.at = "inner", !.site1 = loop.index, !.j = loop.i,
                                    !.visited = Append(@, totalIndex(loop.index, loop.shape)),
                                    !.subs = {<<latsize, 1>>}]
                  ELSE [loop EXCEPT !.at = "done", !.subs = {<<latsize, 1>>}]
    /\ UNCHANGED <<prog, rngVars, ndebug, lat, latArgs, cfg, params, ret, evolveVars>>

\* one iteration of the inner loop: the pair (i, j), increment(site1, shape), ++j
DistInnerIteration ==
    /\ loop.fn = "buildDistMap"
    /\ loop.at = "inner"
    /\ loop.j < latticeSize(loop.shape)
    /\ LET dist == sqMindist(loop.index, loop.site1, loop.shape, loop.distfn)
       IN loop' = [loop EXCEPT
                      !.distmap = distMapWith(@, dist, loop.i, loop.j, loop.maxDist),
                      !.site1 = increment(@, loop.shape),
                      !.j = IAdd(@, 1),
                      !.subs = distIterationSubs(loop.index, loop.site1, loop.shape)]
    /\ UNCHANGED <<prog, rngVars, ndebug, lat, latArgs, cfg, params, ret, evolveVars>>

\* the inner loop ends: increment(site0, shape), ++i
DistOuterIncrement ==
    /\ loop.fn = "buildDistMap"
    /\ loop.at = "inner"
    /\ loop.j >= latticeSize(loop.shape)
    /\ loop' = [loop EXCEPT !.at = "outer",
                            !.index = increment(@, loop.shape),
                            !.i = IAdd(@, 1),
                            !.subs = incrementSubs(loop.index, loop.shape)]
    /\ UNCHANGED <<prog, rngVars, ndebug, lat, latArgs, cfg, params, ret, evolveVars>>

NextConstruction ==
    \/ CallMakeNeighbourList
    \/ NeighbourIteration
    \/ NeighbourReturn
    \/ CallBuildDistMap
    \/ DistOuterTest
    \/ DistInnerIteration
    \/ DistOuterIncrement

SpecConstruction == InitConstruction /\ [][NextConstruction]_vars

(***************************************************************************)
(* SpecMain: main of the n-dimensional program after the input was loaded, *)
(* evolve running an iteration at a time.  prog.at is where main stands:   *)
(* "start" before the initial thermalisation, "initial", "thermalise" and  *)
(* "produce" while the evolve of that name runs, "written" after           *)
(* write(outdir, i, obs, params, lat) and ++i, "exit" after the loop, and  *)
(* "crashed" when the run ended in write.                                  *)
(***************************************************************************)
\* operator<<(std::ostream&, std::vector<T> const&): the indices of vec it
\* reads, the loop up to the first index out of bounds, then back()
vectorReads(vec) ==
    {i \in 0..Len(vec) : i < ISub(Len(vec), 1)} \cup {ISub(Len(vec), 1)}

\* the reads of one vector, each with the vector's name and length
readsOf(name, vec) == {[of |-> name, len |-> Len(vec), at |-> i] : i \in vectorReads(vec)}

\* writeMetadata: lat.shape() is put out
writeMetadataReads(l) == readsOf("shape", l.shape)

\* writeCorrelator: distances has an element per squared distance; it is put
\* out, then correlator.correlator[i] for every i < size(distances)
writeCorrelatorReads(corr, l) ==
    writeMetadataReads(l)
        \cup readsOf("distances", corr.sqDistances)
        \cup {[of |-> "correlator", len |-> Len(corr.correlator), at |-> i - 1] :
                 i \in 1..Len(corr.sqDistances)}
        \cup UNION {readsOf("bin", corr.correlator[i]) :
                       i \in 1..Min(Len(corr.sqDistances), Len(corr.correlator))}

\* write(outdir, ensemble, obs, params, lat): what it reads
writeObservablesReads(o, l) ==
    writeMetadataReads(l)
        \cup readsOf("energy", o.energy)
        \cup readsOf("magnetisation", o.magnetisation)
        \cup writeCorrelatorReads(o.corr, l)

\* a read beyond the end of its vector: undefined behaviour
outOfBounds(read) == read.at >= read.len

\* the Parameters the ensembles of the model run with
MainParameterValues == {[JT |-> 1, hT |-> 0], [JT |-> -1, hT |-> 1]}

\* lattices whose extents are all >= 2
MainShapes ==
    {shape \in ShapesUpTo(MaxMainSites) : \A d \in 1..Len(shape) : shape[d] >= 2}

\* the ProgConfigs of the model: a list of Parameters that differ from one
\* ensemble to the next, one thermalisation sweep per ensemble (ntherm is a
\* single entry, broadcast) and a list nprod of the same length
MainInputs ==
    UNION {[latticeShape : MainShapes, start : {"hot", "cold"},
            params : {list \in [1..n -> MainParameterValues] :
                         \A k \in 1..(n - 1) : list[k] # list[k + 1]},
            nthermInit : {1},
            ntherm : {[k \in 1..n |-> 1]}, nprod : [1..n -> 0..MaxProd],
            writeCfg : BOOLEAN] : n \in 1..MaxEnsembles}

\* main up to and including double energy = 0.0
InitMain ==
    /\ ndebug = FALSE
    /\ \E input \in MainInputs :
          /\ lat = Lattice(input.latticeShape, NoMaxDist, "EUCLIDEAN")
          /\ \E start \in IF input.start = "hot"
                          THEN [1..latticeSize(input.latticeShape) -> SpinDomain]
                          ELSE {Configuration(latticeSize(input.latticeShape), 1)} :
                prog = [NoProg EXCEPT !.at = "start", !.input = input, !.cfg = start]
    /\ latArgs = NoLatArgs
    /\ cfg = NoCfg
    /\ params = [JT |-> 0, hT |-> 0]
    /\ ret = NoRet
    /\ EvolveIdle
    /\ RngIdle
    /\ LoopIdle

\* main calls evolve(c, e, p, lat, rng, nsweep, o, extraMeas): the state of
\* evolve before the first test of its sweep loop
Evolving(c, e, p, nsweep, o, extraMeas) ==
    /\ cfg' = c
    /\ energy' = e
    /\ params' = p
    /\ obs' = o
    /\ call' = [cfg |-> c, energy |-> e, nsweep |-> nsweep, obs |-> o,
                extraMeas |-> extraMeas]
    /\ ncalls' = [k \in 1..Len(extraMeas) |-> 0]
    /\ pc' = afterSweeps(0, nsweep)
    /\ naccept' = 0
    /\ sweep' = 0
    /\ step' = 0
    /\ invoked' = <<>>
    /\ attempt' = NoAttempt
    /\ tally' = NoTally
    /\ ret' = NoRet

\* std::vector<Measurement> meas: the writer of configurations if writeCfg
measurementsOf(input) == IF input.writeCfg THEN <<"write">> ELSE <<>>

\* the initial thermalisation: evolve(cfg, energy, input.params.at(0), lat,
\* rng, input.nthermInit, nullptr) with energy = 0.0
InitialThermalisation ==
    /\ prog.at = "start"
    /\ Evolving(prog.cfg, 0, prog.input.params[1], prog.input.nthermInit, NoObs, <<>>)
    /\ prog' = [prog EXCEPT !.at = "initial"]
    /\ UNCHANGED <<loop, rngVars, ndebug, lat, latArgs>>

\* mutant of Thermalise: the energy the previous evolve returned is kept
ThermaliseWithoutHamiltonian ==
    /\ \/ prog.at = "initial" /\ pc = "done"
       \/ prog.at = "written"
    /\ prog.i < Len(prog.input.params)
    /\ LET mine == IF prog.at = "initial" THEN ret.cfg ELSE prog.cfg
           p == prog.input.params[prog.i + 1]
           e == IF prog.at = "initial" THEN ret.energy ELSE prog.energy
       IN /\ Evolving(mine, e, p, prog.input.ntherm[prog.i + 1], NoObs, <<>>)
          /\ prog' = [prog EXCEPT !.at = "thermalise", !.cfg = mine, !.energy = e]
    /\ UNCHANGED <<loop, rngVars, ndebug, lat, latArgs>>

\* the test of the loop over the ensembles succeeds: std::tie of the initial
\* thermalisation the first time, energy = hamiltonian(cfg, params, lat), the
\* measurements, then evolve(cfg, energy, params, lat, rng, ntherm, nullptr)
Thermalise ==
    /\ \/ prog.at = "initial" /\ pc = "done"
       \/ prog.at = "written"
    /\ prog.i < Len(prog.input.params)
    /\ LET mine == IF prog.at = "initial" THEN ret.cfg ELSE prog.cfg
           p == prog.input.params[prog.i + 1]
           e == hamiltonian(mine, p, lat)
       IN /\ Evolving(mine, e, p, prog.input.ntherm[prog.i + 1], NoObs, <<>>)
          /\ prog' = [prog EXCEPT !.at = "thermalise", !.cfg = mine, !.energy = e]
    /\ UNCHANGED <<loop, rngVars, ndebug, lat, latArgs>>

\* the test of the loop over the ensembles fails: main returns
Exit ==
    /\ \/ prog.at = "initial" /\ pc = "done"
       \/ prog.at = "written"
    /\ prog.i >= Len(prog.input.params)
    /\ prog' = [prog EXCEPT !.at = "exit"]
    /\ UNCHANGED <<loop, rngVars, ndebug, lat, latArgs, cfg, params, ret, evolveVars>>

\* std::tie of the thermalisation, Observables obs(lat), then
\* evolve(cfg, energy, params, lat, rng, nprod, &obs, meas)
Produce ==
    /\ prog.at = "thermalise"
    /\ pc = "done"
    /\ Evolving(ret.cfg, ret.energy, prog.input.params[prog.i + 1],
                prog.input.nprod[prog.i + 1], Observables(lat), measurementsOf(prog.input))
    /\ prog' = [prog EXCEPT !.at = "produce", !.cfg = ret.cfg, !.energy = ret.energy]
    /\ UNCHANGED <<loop, rngVars, ndebug, lat, latArgs>>

\* std::tie of the production run, write(outdir, i, obs, params, lat), ++i.
\* After a read out of bounds the run may end there or go on.
Write ==
    /\ prog.at = "produce"
    /\ pc = "done"
    /\ LET reads == writeObservablesReads(obs, lat)
       IN \E goesOn \in {TRUE} \cup {\A r \in reads : ~outOfBounds(r)} :
             prog' = [prog EXCEPT !.at = IF goesOn THEN "written" ELSE "crashed",
                                  !.i = @ + 1,
                                  !.cfg = ret.cfg,
                                  !.energy = ret.energy,
                                  !.written = [done |-> TRUE, ensemble |-> prog.i,
                                               samples |-> Len(obs.energy),
                                               reads |-> reads]]
    /\ UNCHANGED <<loop, rngVars, ndebug, lat, latArgs, cfg, params, ret, evolveVars>>

NextMain ==
    \/ InitialThermalisation
    \/ Thermalise
    \/ Exit
    \/ Produce
    \/ Write
    \/ Attempt
    \/ Measure
    \/ Return

SpecMain == InitMain /\ [][NextMain]_vars

(***************************************************************************)
(* SpecIsing2D: the program src/cpp/ising.cpp on its NX x NY lattice, from *)
(* main's hot start and energy = hamiltonian(cfg) through one call of      *)
(* evolve, an iteration at a time.  lat holds NX and NY (shape), NX*NY     *)
(* (size) and the member neighbours of Configuration (neighbourList); cfg  *)
(* holds the member cfg.  invoked lists the evaluations of Exp the latest  *)
(* step made, each with its argument.                                      *)
(***************************************************************************)
\* Configuration::Configuration: neighbours, in the order x+1, x-1, y+1, y-1
neighbours2D(nx, ny) ==
    [p \in 1..(4 * nx * ny) |->
        LET site == (p - 1) \div 4
            x == site % nx
            y == site \div nx
        IN CASE (p - 1) % 4 = 0 -> IF x = nx - 1 THEN y * nx ELSE y * nx + x + 1
             [] (p - 1) % 4 = 1 -> IF x = 0 THEN y * nx + nx - 1 ELSE y * nx + x - 1
             [] (p - 1) % 4 = 2 -> IF y = ny - 1 THEN x ELSE (y + 1) * nx + x
             [] OTHER -> IF y = 0 THEN (ny - 1) * nx + x ELSE (y - 1) * nx + x]

\* the constants NX and NY and what the constructor of Configuration builds
Configuration2D(nx, ny) ==
    [neighbourList |-> neighbours2D(nx, ny), shape |-> <<nx, ny>>, size |-> nx * ny,
     distMap |-> EmptyDistMap]

\* cfg[cfg.neighbours[4*idx]] + ... + cfg[cfg.neighbours[4*idx+3]]
neighbourSum2D(config, nb, idx) ==
    config[nb[4 * idx + 1] + 1] + config[nb[4 * idx + 2] + 1]
        + config[nb[4 * idx + 3] + 1] + config[nb[4 * idx + 4] + 1]

\* the loop of hamiltonian: energy after the sites idx, idx+1, ...
RECURSIVE hamiltonianLoop2D(_, _, _, _)
hamiltonianLoop2D(config, nb, idx, e) ==
    IF idx >= Len(config) THEN e
    ELSE hamiltonianLoop2D(config, nb, idx + 1,
                           e + config[idx + 1] * neighbourSum2D(config, nb, idx))

\* hamiltonian(cfg) of ising.cpp
hamiltonian2D(config, nb) == -hamiltonianLoop2D(config, nb, 0, 0)

\* deltaE(cfg, idx) of ising.cpp
deltaE2D(config, nb, idx) == 2 * config[idx + 1] * neighbourSum2D(config, nb, idx)

\* magnetisation(cfg) of ising.cpp, as <<sum, NX*NY>>
magnetisation2D(config) == <<spinSumFrom(config, 1, 0), Len(config)>>

\* Exp::Exp for beta = 1/2 (the temperature 2. of listTemperatures):
\* exp(-2) and exp(-4) in thousandths, rounded down
Exp2D == [exp4 |-> 135, exp8 |-> 18]

\* Exp::operator(): the argument check of the debug build, then exp4 or exp8
expOf(exp, delta, nd) ==
    IF ~nd /\ delta # 4 /\ delta # 8
    THEN [threw |-> "invalid_argument", value |-> 0]
    ELSE [threw |-> "none", value |-> IF delta = 4 THEN exp.exp4 ELSE exp.exp8]

\* mutant of acceptReject2D: exp(delta) > rng.genReal() or delta <= 0
acceptReject2DExpFirst(delta, nd) ==
    LET e == expOf(Exp2D, delta, nd)
    IN IF e.threw # "none"
       THEN {[threw |-> e.threw, accepted |-> FALSE, draws |-> <<"genIndex">>, real |-> 0,
              exp |-> <<[who |-> "exp", delta |-> delta]>>]}
       ELSE {[threw |-> "none", accepted |-> e.value >= realMilli \/ delta <= 0,
              draws |-> <<"genIndex", "genReal">>, real |-> realMilli,
              exp |-> <<[who |-> "exp", delta |-> delta]>>] : realMilli \in RealDraws}

\* delta <= 0 or exp(delta) > rng.genReal(): the outcomes of the test, one
\* for each value genReal can return; exp and genReal are evaluated only if
\* delta <= 0 is false, and a throwing exp ends evolve
acceptReject2D(delta, nd) ==
    IF delta <= 0
    THEN {[threw |-> "none", accepted |-> TRUE, draws |-> <<"genIndex">>, real |-> 0,
           exp |-> <<>>]}
    ELSE LET e == expOf(Exp2D, delta, nd)
         IN IF e.threw # "none"
            THEN {[threw |-> e.threw, accepted |-> FALSE, draws |-> <<"genIndex">>,
                   real |-> 0, exp |-> <<[who |-> "exp", delta |-> delta]>>]}
            ELSE {[threw |-> "none", accepted |-> e.value >= realMilli,
                   draws |-> <<"genIndex", "genReal">>, real |-> realMilli,
                   exp |-> <<[who |-> "exp", delta |-> delta]>>] : realMilli \in RealDraws}

\* the values the constants NX and NY take in the model
Sizes2D ==
    {shape \in ShapesUpTo(Max2DSites) :
        Len(shape) = 2 /\ \A d \in 1..2 : shape[d] >= 2}

\* the configurations main starts from in the model: of those randomCfg can
\* produce, the ones with at most one spin -1
HotStarts2D(size) ==
    {config \in [1..size -> SpinDomain] :
        \E odd \in 1..size : \A i \in (1..size) \ {odd} : config[i] = 1}

\* main after auto energy = hamiltonian(cfg)
InitIsing2D ==
    /\ ndebug = FALSE
    /\ \E shape \in Sizes2D : lat = Configuration2D(shape[1], shape[2])
    /\ latArgs = NoLatArgs
    /\ cfg \in HotStarts2D(lat.size)
    /\ params = [JT |-> 0, hT |-> 0]
    /\ ret = [op |-> "hamiltonian", value |-> hamiltonian2D(cfg, lat.neighbourList)]
    /\ EvolveIdle
    /\ RngIdle
    /\ LoopIdle
    /\ ProgIdle

\* evolve(cfg, energy, beta, rng, nsweep, obs) up to the first test of its
\* sweep loop, with nullptr or an empty Observables
CallEvolve2D ==
    /\ pc = "idle"
    /\ \E nsweep \in 0..MaxSweeps2D, present \in BOOLEAN :
          /\ obs' = [NoObs EXCEPT !.present = present]
          /\ call' = [cfg |-> cfg, energy |-> ret.value, nsweep |-> nsweep,
                      obs |-> [NoObs EXCEPT !.present = present], extraMeas |-> <<>>]
          /\ pc' = afterSweeps(0, nsweep)
    /\ energy' = ret.value
    /\ naccept' = 0
    /\ sweep' = 0
    /\ step' = 0
    /\ invoked' = <<>>
    /\ UNCHANGED <<prog, loop, rngVars, ndebug, lat, latArgs, cfg, params, ret, attempt, tally,
                   ncalls>>

\* one iteration of the step loop
Attempt2D ==
    /\ pc = "step"
    /\ \E idx \in 0..(lat.size - 1) :
          LET delta == deltaE2D(cfg, lat.neighbourList, idx)
          IN \E test \in acceptReject2D(delta, ndebug) :
                /\ cfg' = IF test.accepted THEN [cfg EXCEPT ![idx + 1] = @ * (-1)] ELSE cfg
                /\ energy' = IF test.accepted THEN energy + delta ELSE energy
                /\ naccept' = IF test.accepted THEN naccept + 1 ELSE naccept
                /\ attempt' = [delta |-> delta, draws |-> test.draws, real |-> test.real,
                               accepted |-> test.accepted]
                /\ invoked' = test.exp
                /\ step' = IF test.threw = "none" THEN step + 1 ELSE step
                /\ pc' = IF test.threw = "none" THEN afterSteps(step + 1, lat.size)
                         ELSE "threw"
                /\ ret' = IF test.threw = "none" THEN ret
                          ELSE [op |-> "evolve", threw |-> test.threw]
    /\ UNCHANGED <<prog, loop, rngVars, ndebug, lat, latArgs, params, obs, call, sweep, tally,
                   ncalls>>

\* the end of a sweep: the measurements if obs is given, then ++sweep
Measure2D ==
    /\ pc = "measure"
    /\ obs' = IF obs.present
              THEN [obs EXCEPT !.energy = Append(@, energy),
                               !.magnetisation = Append(@, magnetisation2D(cfg))]
              ELSE obs
    /\ sweep' = sweep + 1
    /\ step' = 0
    /\ pc' = afterSweeps(sweep + 1, call.nsweep)
    /\ invoked' = <<>>
    /\ UNCHANGED <<prog, loop, rngVars, ndebug, lat, latArgs, cfg, params, ret, call, energy,
                   naccept, attempt, tally, ncalls>>

\* return std::make_tuple(std::move(cfg), energy, naccept)
Return2D ==
    /\ pc = "return"
    /\ ret' = [op |-> "evolve", threw |-> "none", cfg |-> cfg, energy |-> energy,
               naccept |-> naccept]
    /\ pc' = "done"
    /\ invoked' = <<>>
    /\ UNCHANGED <<prog, loop, rngVars, ndebug, lat, latArgs, cfg, params, obs, call, energy,
                   naccept, sweep, step, attempt, tally, ncalls>>

NextIsing2D ==
    \/ CallEvolve2D
    \/ Attempt2D
    \/ Measure2D
    \/ Return2D

SpecIsing2D == InitIsing2D /\ [][NextIsing2D]_vars

(***************************************************************************)
(* SpecCheckerboard: the energy functions on the periodic 3x3 lattice with *)
(* the two checkerboard configurations.                                    *)
(***************************************************************************)
CheckerboardShape == <<3, 3>>

\* Configuration cfg(size, Spin{+1}); for (i = 0; i < size(cfg); i = i+2) cfg[i] = Spin{-1}:
\* evenSpin on the even flat indices, -evenSpin on the odd ones
checkerboard(size, evenSpin) ==
    [i \in 1..size |-> IF (i - 1) % 2 = 0 THEN evenSpin ELSE -evenSpin]

CheckerboardParameters ==
    [JT : (-MaxCoupling)..MaxCoupling, hT : (-MaxCoupling)..MaxCoupling]

InitCheckerboard ==
    /\ ndebug \in BOOLEAN
    /\ lat = Lattice(CheckerboardShape, NoMaxDist, "EUCLIDEAN")
    /\ latArgs = NoLatArgs
    /\ cfg \in {checkerboard(lat.size, evenSpin) : evenSpin \in SpinDomain}
    /\ params \in CheckerboardParameters
    /\ ret = NoRet
    /\ EvolveIdle
    /\ RngIdle
    /\ LoopIdle
    /\ ProgIdle

NextCheckerboard ==
    \/ CallHamiltonian
    \/ CallDeltaE

SpecCheckerboard == InitCheckerboard /\ [][NextCheckerboard]_vars

(***************************************************************************)
(* SpecFileio: loading of the parameters and of the program configuration  *)
(* from a YAML node, and the sweeps main runs with what was loaded.  A     *)
(* function that can throw is the set of its outcomes, records with a      *)
(* field threw that is "none" when the function returns.                   *)
(***************************************************************************)
NodeValues == {1, 2}

\* YAML nodes: a scalar, a sequence (of any length) or a node that is neither
ScalarNode(v) == [kind |-> "scalar", values |-> <<v>>]
SequenceNode(seq) == [kind |-> "sequence", values |-> seq]
NullNode == [kind |-> "null", values |-> <<>>]

Nodes ==
    {ScalarNode(v) : v \in NodeValues}
        \cup {SequenceNode([i \in 1..n |-> v + i - 1]) : n \in 0..MaxSeqLen, v \in NodeValues}
        \cup {NullNode}

\* a read of an element a std::vector does not have is undefined: the build
\* may yield any value or end the program
UndefinedValues == NodeValues \cup {0}

\* loadVector<T>
loadVector(node) ==
    IF node.kind = "sequence" THEN [threw |-> "none", value |-> node.values]
    ELSE IF node.kind = "scalar" THEN [threw |-> "none", value |-> <<node.values[1]>>]
    ELSE [threw |-> "invalid_argument", value |-> <<>>]

\* vec.front()
front(vec) ==
    IF Len(vec) > 0 THEN {[threw |-> "none", value |-> vec[1]]}
    ELSE {[threw |-> "none", value |-> v] : v \in UndefinedValues}
            \cup {[threw |-> "crash", value |-> 0]}

\* vec.resize(count, value)
resize(vec, count, value) ==
    [i \in 1..count |-> IF i <= Len(vec) THEN vec[i] ELSE value]

\* vec.resize(count, vec.front()): the outcomes
resizeWithFront(vec, count) ==
    {IF f.threw # "none" THEN [threw |-> f.threw, value |-> <<>>]
     ELSE [threw |-> "none", value |-> resize(vec, count, f.value)] : f \in front(vec)}

\* loadParamsIndividual: the outcomes [threw, J, h]
loadParamsIndividual(node) ==
    LET J == loadVector(node.J)
        h == loadVector(node.h)
        failed(what) == [threw |-> what, J |-> <<>>, h |-> <<>>]
    IN IF J.threw # "none" THEN {failed(J.threw)}
       ELSE IF h.threw # "none" THEN {failed(h.threw)}
       ELSE IF Len(J.value) > 1 /\ Len(h.value) > 1
            THEN IF Len(J.value) # Len(h.value) THEN {failed("invalid_argument")}
                 ELSE {[threw |-> "none", J |-> J.value, h |-> h.value]}
       ELSE IF Len(J.value) > 1
            THEN {IF r.threw # "none" THEN failed(r.threw)
                  ELSE [threw |-> "none", J |-> J.value, h |-> r.value] :
                      r \in resizeWithFront(h.value, Len(J.value))}
       ELSE IF Len(h.value) > 1
            THEN {IF r.threw # "none" THEN failed(r.threw)
                  ELSE [threw |-> "none", J |-> r.value, h |-> h.value] :
                      r \in resizeWithFront(J.value, Len(h.value))}
       ELSE {[threw |-> "none", J |-> J.value, h |-> h.value]}

\* loadParams: Parameters{J[i], h[i]} for i < size(J); h[i] is read unchecked
loadParams(node) ==
    UNION {IF o.threw # "none" THEN {[threw |-> o.threw, value |-> <<>>]}
           ELSE IF Len(o.h) >= Len(o.J)
                THEN {[threw |-> "none",
                       value |-> [i \in 1..Len(o.J) |-> [JT |-> o.J[i], hT |-> o.h[i]]]]}
                ELSE {[threw |-> "none",
                       value |-> [i \in 1..Len(o.J) |-> [JT |-> o.J[i], hT |-> v]]] :
                          v \in UndefinedValues}
                        \cup {[threw |-> "crash", value |-> <<>>]} :
              o \in loadParamsIndividual(node)}

\* checkSizeAndBroadcast: the outcomes [threw, value], value being vec afterwards
checkSizeAndBroadcast(vec, desired) ==
    IF Len(vec) > 1
    THEN IF Len(vec) # desired THEN {[threw |-> "invalid_argument", value |-> vec]}
         ELSE {[threw |-> "none", value |-> vec]}
    ELSE resizeWithFront(vec, desired)

NoConfig == [params |-> <<>>, nthermInit |-> 0, ntherm |-> <<>>, nprod |-> <<>>]

\* convert<ProgConfig>::decode for a map node: the outcomes [threw, loaded, config];
\* loaded tells whether the Parameters were loaded and holds them
decode(node) ==
    UNION {
        IF p.threw # "none"
        THEN {[threw |-> p.threw, loaded |-> FALSE, config |-> NoConfig]}
        ELSE LET ntherm == loadVector(node.ntherm)
                 nprod == loadVector(node.nprod)
                 failed(what) == [threw |-> what, loaded |-> TRUE,
                                  config |-> [NoConfig EXCEPT !.params = p.value]]
             IN IF ntherm.threw # "none" THEN {failed(ntherm.threw)}
                ELSE IF nprod.threw # "none" THEN {failed(nprod.threw)}
                ELSE UNION {
                    IF t.threw # "none" THEN {failed(t.threw)}
                    ELSE {IF q.threw # "none" THEN failed(q.threw)
                          ELSE IF node.start \notin {"hot", "cold"}
                               THEN failed("invalid_argument")
                          ELSE [threw |-> "none", loaded |-> TRUE,
                                config |-> [params |-> p.value,
                                            nthermInit |-> node.nthermInit,
                                            ntherm |-> t.value,
                                            nprod |-> q.value]] :
                             q \in checkSizeAndBroadcast(nprod.value, Len(p.value))} :
                    t \in checkSizeAndBroadcast(ntherm.value, Len(p.value))} :
        p \in loadParams(node.Parameters)}

\* the loop of main over the ensembles i, i+1, ...: the nsweep arguments of
\* the calls of evolve so far, and what ended the loop
RECURSIVE ensembles(_, _, _)
ensembles(input, i, nsweeps) ==
    IF i > Len(input.params) THEN [threw |-> "none", nsweeps |-> nsweeps]
    ELSE IF i > Len(input.ntherm) \/ i > Len(input.nprod)
         THEN [threw |-> "out_of_range", nsweeps |-> nsweeps]
    ELSE ensembles(input, i + 1, nsweeps \o <<input.ntherm[i], input.nprod[i]>>)

\* main after the input was decoded: the initial thermalisation, then the
\* ensembles
main(input) ==
    IF Len(input.params) = 0 THEN [threw |-> "out_of_range", nsweeps |-> <<>>]
    ELSE ensembles(input, 1, <<input.nthermInit>>)

InitFileio ==
    /\ ndebug = FALSE
    /\ lat = NoLattice
    /\ latArgs = NoLatArgs
    /\ cfg = NoCfg
    /\ params = [JT |-> 0, hT |-> 0]
    /\ ret = NoRet
    /\ EvolveIdle
    /\ RngIdle
    /\ LoopIdle
    /\ ProgIdle

\* loadParams(node)
LoadParams ==
    /\ ret.op \in {"none", "loadParams"}
    /\ \E J \in Nodes, h \in Nodes :
          \E outcome \in loadParams([J |-> J, h |-> h]) :
             ret' = [op |-> "loadParams", J |-> J, h |-> h,
                     threw |-> outcome.threw, value |-> outcome.value]
    /\ UNCHANGED <<prog, loop, rngVars, ndebug, lat, latArgs, cfg, params, evolveVars>>

\* YAML::LoadFile(infile).as<ProgConfig>()
Decode ==
    /\ ret.op = "none"
    /\ \E J \in Nodes, h \in Nodes, ntherm \in Nodes, nprod \in Nodes,
          start \in {"hot", "cold", "warm"}, nthermInit \in NodeValues :
          LET node == [Parameters |-> [J |-> J, h |-> h], ntherm |-> ntherm,
                       nprod |-> nprod, start |-> start, nthermInit |-> nthermInit]
          IN \E outcome \in decode(node) :
                ret' = [op |-> "decode", ntherm |-> ntherm, nprod |-> nprod,
                        threw |-> outcome.threw, loaded |-> outcome.loaded,
                        config |-> outcome.config]
    /\ UNCHANGED <<prog, loop, rngVars, ndebug, lat, latArgs, cfg, params, evolveVars>>

\* the rest of main: nothing runs when decode threw
RunEnsembles ==
    /\ ret.op = "decode"
    /\ LET run == IF ret.threw # "none" THEN [threw |-> ret.threw, nsweeps |-> <<>>]
                  ELSE main(ret.config)
       IN ret' = [op |-> "main", ntherm |-> ret.ntherm, nprod |-> ret.nprod,
                  decoded |-> ret.threw = "none", loaded |-> ret.loaded,
                  config |-> ret.config, threw |-> run.threw, nsweeps |-> run.nsweeps]
    /\ UNCHANGED <<prog, loop, rngVars, ndebug, lat, latArgs, cfg, params, evolveVars>>

NextFileio ==
    \/ LoadParams
    \/ Decode
    \/ RunEnsembles

SpecFileio == InitFileio /\ [][NextFileio]_vars

(***************************************************************************)
(* SpecRng: an Rng, its three draws and the change of its lattice size.    *)
(* std::mt19937 is a deterministic generator whose state every draw        *)
(* advances; the model keeps that with a full-period congruential          *)
(* generator on GeneratorModulus states.  A distribution maps the          *)
(* generator's output to its range.                                        *)
(***************************************************************************)
GeneratorModulus == 16

\* one invocation of the generator: the next state, which is also the output
engine(state) == (5 * state + 3) % GeneratorModulus

\* Rng::Rng: rng{seed}, indexDist{0, latsize.get()-1}, realDist{0, 1}, spinDist{0, 1}
Rng(latsize, seed) ==
    [rng |-> seed % GeneratorModulus,
     indexDist |-> [a |-> 0, b |-> ISub(latsize, 1)],
     realDist |-> [a |-> 0, b |-> 1],
     spinDist |-> [a |-> 0, b |-> 1]]

\* mutant of genIndex: the upper bound of the distribution is taken as exclusive
\* of one more value
genIndexInclusive(r) ==
    LET out == engine(r.rng)
    IN [value |-> r.indexDist.a + (out % (r.indexDist.b - r.indexDist.a + 2)),
        rng |-> [r EXCEPT !.rng = out]]

\* Rng::genIndex: Index{indexDist(rng)}, uniform on [a, b]; the value and the
\* Rng after the draw
genIndex(r) ==
    LET out == engine(r.rng)
    IN [value |-> r.indexDist.a + (out % (r.indexDist.b - r.indexDist.a + 1)),
        rng |-> [r EXCEPT !.rng = out]]

\* Rng::genReal: realDist(rng), in [0, 1), as <<numerator, denominator>>
genReal(r) ==
    LET out == engine(r.rng)
    IN [value |-> <<out, GeneratorModulus>>, rng |-> [r EXCEPT !.rng = out]]

\* Rng::genSpin: spinDist(rng) == 0 ? Spin{-1} : Spin{1}
genSpinOf(r) ==
    LET out == engine(r.rng)
    IN [value |-> genSpin(r.spinDist.a + (out % (r.spinDist.b - r.spinDist.a + 1))),
        rng |-> [r EXCEPT !.rng = out]]

\* Rng::setLatsize(latsize): a new indexDist, the generator is left alone
setLatsize(r, latsize) ==
    [r EXCEPT !.indexDist = [a |-> 0, b |-> ISub(latsize, 1)]]

InitRng ==
    /\ ndebug \in BOOLEAN
    /\ lat = NoLattice
    /\ latArgs = NoLatArgs
    /\ cfg = NoCfg
    /\ params = [JT |-> 0, hT |-> 0]
    /\ ret = NoRet
    /\ EvolveIdle
    /\ LoopIdle
    /\ ProgIdle
    /\ \E latsize \in 1..MaxRngSize, seed \in 0..MaxSeed :
          /\ rng = Rng(latsize, seed)
          /\ twin = [rng |-> Rng(latsize, seed), latsize |-> latsize]

\* rng.genIndex()
GenIndex ==
    /\ LET draw == genIndex(rng)
           same == genIndex(twin.rng)
       IN /\ rng' = draw.rng
          /\ twin' = [twin EXCEPT !.rng = same.rng]
          /\ ret' = [op |-> "genIndex", value |-> draw.value, twin |-> same.value]
    /\ UNCHANGED <<prog, loop, ndebug, lat, latArgs, cfg, params, evolveVars>>

\* rng.genReal()
GenReal ==
    /\ LET draw == genReal(rng)
           same == genReal(twin.rng)
       IN /\ rng' = draw.rng
          /\ twin' = [twin EXCEPT !.rng = same.rng]
          /\ ret' = [op |-> "genReal", value |-> draw.value, twin |-> same.value]
    /\ UNCHANGED <<prog, loop, ndebug, lat, latArgs, cfg, params, evolveVars>>

\* rng.genSpin()
GenSpin ==
    /\ LET draw == genSpinOf(rng)
           same == genSpinOf(twin.rng)
       IN /\ rng' = draw.rng
          /\ twin' = [twin EXCEPT !.rng = same.rng]
          /\ ret' = [op |-> "genSpin", value |-> draw.value, twin |-> same.value]
    /\ UNCHANGED <<prog, loop, ndebug, lat, latArgs, cfg, params, evolveVars>>

\* rng.setLatsize(latsize); the twin is not told
SetLatsize ==
    /\ \E latsize \in 1..MaxRngSize :
          /\ rng' = setLatsize(rng, latsize)
          /\ twin' = [twin EXCEPT !.latsize = latsize]
          /\ ret' = [op |-> "setLatsize", before |-> rng, latsize |-> latsize]
    /\ UNCHANGED <<prog, loop, ndebug, lat, latArgs, cfg, params, evolveVars>>

NextRng ==
    \/ GenIndex
    \/ GenReal
    \/ GenSpin
    \/ SetLatsize

SpecRng == InitRng /\ [][NextRng]_vars

(***************************************************************************)
(* Reference definitions for the lattice properties: the coordinates of a  *)
(* flat site by division, independent of the counters the code advances.   *)
(***************************************************************************)
RECURSIVE StrideAfter(_, _)
\* the product of the extents of all dimensions after dimension d (0-based)
StrideAfter(shape, d) ==
    IF d + 1 >= Len(shape) THEN 1 ELSE shape[d + 2] * StrideAfter(shape, d + 1)

CoordsOf(site, shape) ==
    [k \in 1..Len(shape) |-> (site \div StrideAfter(shape, k - 1)) % shape[k]]

RECURSIVE SumTo(_, _)
SumTo(terms, k) == IF k = 0 THEN 0 ELSE terms[k] + SumTo(terms, k - 1)

SiteOf(coords, shape) ==
    SumTo([k \in 1..Len(shape) |-> coords[k] * StrideAfter(shape, k - 1)], Len(shape))

Sites(l) == 0..(l.size - 1)
Slots(l) == 0..(2 * ndimOf(l) - 1)
Dims(l) == 0..(ndimOf(l) - 1)

\* the site reached from site i by moving by step (+1 or -1) in dimension d
Moved(l, i, d, by) ==
    LET c == CoordsOf(i, l.shape)
    IN SiteOf([c EXCEPT ![d + 1] = (c[d + 1] + by + l.shape[d + 1]) % l.shape[d + 1]],
              l.shape)

\* min(f, nx - f) with f = (x1 - x0) mod nx, per dimension
Separations(l, i, j) ==
    LET c0 == CoordsOf(i, l.shape)
        c1 == CoordsOf(j, l.shape)
    IN [k \in 1..Len(l.shape) |->
           LET f == (c1[k] - c0[k]) % l.shape[k]
           IN Min(f, l.shape[k] - f)]

RefSqDistance(l, i, j, distfn) ==
    LET sep == Separations(l, i, j)
        n == Len(l.shape)
    IN IF distfn = "EUCLIDEAN"
       THEN SumTo([k \in 1..n |-> sep[k] * sep[k]], n)
       ELSE SumTo(sep, n) * SumTo(sep, n)

\* sqrt(d) < maxDist for the maximum distance the lattice was built with
BelowMaxDist(d, maxDist) ==
    maxDist.has /\ maxDist.twice > 0 /\ 4 * d < maxDist.twice * maxDist.twice

Occurrences(pairs, pair) == Cardinality({p \in 1..Len(pairs) : pairs[p] = pair})

(***************************************************************************)
(* C4: for every lattice (extents 1 and 2 included), every site i and      *)
(* every neighbour slot k, i is among the neighbours of neighbour(i, k):   *)
(* whatever site a call neighbour(i, k) returns has i among its own        *)
(* neighbours.                                                             *)
(***************************************************************************)
C4_NeighboursSymmetric ==
    ret.op = "neighbour" =>
        \E back \in Slots(lat) : neighbourAt(lat, ret.value, back) = ret.site

\* a neighbour was looked up on a lattice with an extent 1, an extent 2 and
\* an extent of at least 3
C4_Witness ==
    /\ ret.op = "neighbour"
    /\ \E a, b, c \in Dims(lat) :
          lat.shape[a + 1] = 1 /\ lat.shape[b + 1] = 2 /\ lat.shape[c + 1] >= 3

(***************************************************************************)
(* C5: the neighbour list has 2*ndim*size entries; entry 2*ndim*i + 2d is  *)
(* the site with coordinate d of i incremented modulo the extent, entry    *)
(* 2*ndim*i + 2d + 1 the one with it decremented; neighbour(i, k), the     *)
(* k-th element of neighbours(i) and neighbourList()[2*ndim*i + k] agree.  *)
(* The table is examined where the Lattice has just been constructed (it   *)
(* never changes afterwards), the accessors where they return.             *)
(***************************************************************************)
C5_NeighbourListLayout ==
    /\ Constructed =>
          /\ Len(lat.neighbourList) = 2 * ndimOf(lat) * lat.size
          /\ \A i \in Sites(lat), d \in Dims(lat) :
                /\ neighbourListAt(lat, 2 * ndimOf(lat) * i + 2 * d)
                      = Moved(lat, i, d, 1)
                /\ neighbourListAt(lat, 2 * ndimOf(lat) * i + 2 * d + 1)
                      = Moved(lat, i, d, -1)
    /\ ret.op = "neighbour" =>
          ret.value = neighbourListAt(lat, 2 * ndimOf(lat) * ret.site + ret.neigh)
    /\ ret.op = "neighbours" =>
          /\ Len(ret.value) = 2 * ndimOf(lat)
          /\ \A k \in Slots(lat) :
                ret.value[k + 1] = neighbourListAt(lat, 2 * ndimOf(lat) * ret.site + k)

\* the neighbours of a site were taken on a lattice of at least two
\* dimensions where incrementing and decrementing differ
C5_Witness ==
    /\ ret.op = "neighbours"
    /\ ndimOf(lat) >= 2
    /\ \E d \in Dims(lat) :
          /\ lat.shape[d + 1] >= 3
          /\ ret.value[2 * d + 1] # ret.value[2 * d + 2]

(***************************************************************************)
(* C6: totalIndex is generalised row-major: one step up in coordinate d    *)
(* (staying in range) adds the product of the extents of all dimensions    *)
(* after d to the flat index, one step down subtracts it.                  *)
(***************************************************************************)
C6_TotalIndexRowMajor ==
    ret.op = "totalIndex" =>
        \A d \in Dims(lat) :
           LET c == ret.index[d + 1]
               stride == StrideAfter(lat.shape, d)
           IN /\ c + 1 < lat.shape[d + 1] =>
                    totalIndex([ret.index EXCEPT ![d + 1] = c + 1], lat.shape)
                        = ret.value + stride
              /\ c >= 1 =>
                    totalIndex([ret.index EXCEPT ![d + 1] = c - 1], lat.shape)
                        = ret.value - stride

\* totalIndex was applied to a site of a 3-dimensional lattice with unequal
\* extents that has room above and below in its first coordinate
C6_Witness ==
    /\ ret.op = "totalIndex"
    /\ ndimOf(lat) = 3
    /\ lat.shape[2] # lat.shape[3]
    /\ ret.index[1] >= 1
    /\ ret.index[1] + 1 < lat.shape[1]

(***************************************************************************)
(* C7: for a lattice built with a maximum distance, bucket d of the        *)
(* distance map holds exactly the pairs (i, j), i <= j, self-pairs         *)
(* included, at squared minimum-image distance d with sqrt(d) < maxDist,   *)
(* each exactly once.                                                      *)
(***************************************************************************)
C7_DistMapComplete ==
    Constructed /\ latArgs.maxDist.has =>
        \A i \in Sites(lat), j \in Sites(lat) :
            i <= j =>
               LET d == RefSqDistance(lat, i, j, latArgs.distfn)
               IN BelowMaxDist(d, latArgs.maxDist) =>
                     /\ d \in DOMAIN lat.distMap
                     /\ Occurrences(lat.distMap[d], <<i, j>>) = 1

(***************************************************************************)
(* C8: every pair (i, j) stored under key d has i <= j < size,             *)
(* sqrt(d) < maxDist, and d is the squared minimum-image distance of i and *)
(* j under the metric; without a maximum distance the map is empty.  The   *)
(* map is examined where the Lattice has just been constructed.            *)
(***************************************************************************)
C8_DistMapSound ==
    Constructed =>
       /\ \A d \in DOMAIN lat.distMap :
             \A p \in 1..Len(lat.distMap[d]) :
                LET i == lat.distMap[d][p][1]
                    j == lat.distMap[d][p][2]
                IN /\ i <= j
                   /\ j < lat.size
                   /\ BelowMaxDist(d, latArgs.maxDist)
                   /\ d = RefSqDistance(lat, i, j, latArgs.distfn)
       /\ ~latArgs.maxDist.has => DOMAIN lat.distMap = {}

\* a Manhattan lattice holds a pair that is separated in two dimensions, in
\* one of them across the periodic boundary
C8_Witness ==
    /\ Constructed
    /\ latArgs.distfn = "MANHATTAN"
    /\ \E d \in DOMAIN lat.distMap :
          \E p \in 1..Len(lat.distMap[d]) :
             LET c0 == CoordsOf(lat.distMap[d][p][1], lat.shape)
                 c1 == CoordsOf(lat.distMap[d][p][2], lat.shape)
             IN \E a, b \in 1..Len(lat.shape) :
                   /\ a # b
                   /\ c0[a] # c1[a]
                   /\ c1[b] - c0[b] = lat.shape[b] - 1
                   /\ lat.shape[b] >= 3

(***************************************************************************)
(* C1: for every lattice shape, every +1/-1 configuration on it, every     *)
(* site and every parameters, deltaE(cfg, site, params, lat) equals the    *)
(* hamiltonian of cfg with that site flipped minus the hamiltonian of cfg. *)
(***************************************************************************)
C1_DeltaEIsHamiltonianDifference ==
    ret.op = "deltaE" =>
        ret.value = hamiltonian(flip(cfg, ret.site), params, lat)
                        - hamiltonian(cfg, params, lat)

(***************************************************************************)
(* C2: the energy evolve returns equals the hamiltonian of the             *)
(* configuration it returns.  Stated for the calls most favourable to the  *)
(* claim among "any starting energy argument": those whose starting energy *)
(* argument is the hamiltonian of the starting configuration.              *)
(***************************************************************************)
C2_ReturnedEnergyIsHamiltonian ==
    (ret.op = "evolve" /\ call.energy = hamiltonian(call.cfg, params, lat)) =>
        ret.energy = hamiltonian(ret.cfg, params, lat)

(***************************************************************************)
(* C3: every element of a Configuration is +1 or -1 in every reachable     *)
(* state: after construction, after randomCfg, after any write through     *)
(* operator[] and after every flip.                                        *)
(***************************************************************************)
C3_SpinsArePlusMinusOne ==
    \A k \in 1..Len(cfg) : cfg[k] \in SpinDomain

(***************************************************************************)
(* C9: evolve makes exactly nsweep * size(lat) flip attempts and then      *)
(* returns; each attempt draws genIndex exactly once, before deltaE, and   *)
(* genReal exactly once after it if and only if delta > 0; evolve makes no *)
(* other draw.  tally.genIndex counts the attempts begun, each by its draw *)
(* of a site; the draws of the latest attempt are in attempt.draws, in     *)
(* their order.                                                            *)
(***************************************************************************)
C9_DrawsOfEvolve ==
    pc \in {"step", "measure", "return", "done"} =>
        /\ tally.genIndex = sweep * lat.size + step
        /\ pc = "done" => tally.genIndex = call.nsweep * lat.size
        /\ tally.genReal = tally.positive
        /\ tally.genIndex > 0 =>
              attempt.draws = IF attempt.delta > 0 THEN <<"genIndex", "genReal">>
                              ELSE <<"genIndex">>

\* a finished run of several sweeps on several sites in which some attempts
\* drew genReal and some did not
C9_Witness ==
    /\ pc = "done"
    /\ call.nsweep >= 2
    /\ lat.size >= 2
    /\ tally.genReal > 0
    /\ tally.genReal < tally.genIndex

(***************************************************************************)
(* C10: with an Observables, evolve appends after each sweep exactly one   *)
(* energy sample (the running energy at the end of the sweep), exactly one *)
(* magnetisation sample and exactly one value to every correlator bin;     *)
(* after the call each series is longer by exactly nsweep; nothing is      *)
(* appended in the middle of a sweep.  sweep counts the sweeps completed.  *)
(***************************************************************************)
C10_SamplesPerSweep ==
    (obs.present /\ pc \in {"step", "measure", "return", "done"}) =>
        /\ Len(obs.energy) = Len(call.obs.energy) + sweep
        /\ Len(obs.magnetisation) = Len(call.obs.magnetisation) + sweep
        /\ Len(obs.corr.correlator) = Len(sqDistances(lat))
        /\ \A bin \in 1..Len(obs.corr.correlator) :
              Len(obs.corr.correlator[bin]) = Len(call.obs.corr.correlator[bin]) + sweep
        /\ (sweep > 0 /\ step = 0) =>
              /\ obs.energy[Len(obs.energy)] = energy
              /\ obs.magnetisation[Len(obs.magnetisation)] = magnetisation(cfg)
        /\ pc = "done" => sweep = call.nsweep

\* a finished run of several sweeps with several correlator bins, whose
\* energy samples differ
C10_Witness ==
    /\ pc = "done"
    /\ obs.present
    /\ call.nsweep >= 2
    /\ Len(obs.corr.correlator) >= 2
    /\ obs.energy[1] # obs.energy[2]

(***************************************************************************)
(* C11: in every sweep of evolve, after the built-in measurement of that   *)
(* sweep, each registered extra measurement is called exactly once, in     *)
(* registration order, with the configuration and the running energy of    *)
(* the end of that sweep; each is called exactly nsweep times per call of  *)
(* evolve, with or without an Observables.                                 *)
(***************************************************************************)
C11_ExtraMeasurementsPerSweep ==
    pc \in {"step", "measure", "return", "done"} =>
        /\ Len(ncalls) = Len(call.extraMeas)
        /\ \A k \in 1..Len(ncalls) : ncalls[k] = sweep
        /\ pc = "done" => \A k \in 1..Len(ncalls) : ncalls[k] = call.nsweep
        /\ (pc \in {"step", "return"} /\ sweep > 0 /\ step = 0) =>
              /\ Len(invoked) = 1 + Len(call.extraMeas)
              /\ invoked[1].who = "measure"
              /\ \A k \in 1..Len(call.extraMeas) :
                    invoked[k + 1] = [who |-> call.extraMeas[k], cfg |-> cfg,
                                      energy |-> energy]
        /\ (pc \in {"measure", "done"} \/ step > 0) => invoked = <<>>

\* a finished run of several sweeps with several extra measurements and no
\* Observables, in which the configuration changed
C11_Witness ==
    /\ pc = "done"
    /\ call.nsweep >= 2
    /\ Len(call.extraMeas) >= 2
    /\ ~obs.present
    /\ ret.cfg # call.cfg
    /\ \A k \in 1..Len(ncalls) : ncalls[k] = call.nsweep

(***************************************************************************)
(* C12: the acceptance rate evolve returns is a number in [0, 1] for every *)
(* nsweep >= 0: the quotient naccept / nsweep / size(lat) is defined (its  *)
(* divisors are not 0) and naccept is at most nsweep * size(lat).          *)
(***************************************************************************)
C12_AcceptanceRateInUnitInterval ==
    ret.op = "evolve" =>
        /\ ret.rate[2] # 0
        /\ ret.rate[3] # 0
        /\ 0 <= ret.rate[1]
        /\ ret.rate[1] <= ret.rate[2] * ret.rate[3]

C15_HamiltonianWithoutCoupling ==
    (ret.op = "hamiltonian" /\ params.JT = 0) =>
        LET m == magnetisation(cfg)
        IN /\ ret.value * m[2] = (-params.hT) * m[1] * lat.size
           /\ ret.value = (-params.hT) * m[1]

\* the hamiltonian of a configuration with spins of both signs and a
\* magnetisation other than 0, in a field
C15_Witness ==
    /\ ret.op = "hamiltonian"
    /\ params.JT = 0
    /\ params.hT # 0
    /\ \E i, j \in 1..Len(cfg) : cfg[i] = 1 /\ cfg[j] = -1
    /\ magnetisation(cfg)[1] # 0
    /\ ret.value # 0

(***************************************************************************)
(* C16: for every lattice shape and every parameters, the configuration    *)
(* with every spin +1 has the hamiltonian                                  *)
(* -(ndim(lat) * J/kT + h/kT) * size(lat).                                 *)
(***************************************************************************)
C16_HamiltonianOfAlignedSpins ==
    (ret.op = "hamiltonian" /\ \A k \in 1..Len(cfg) : cfg[k] = 1) =>
        ret.value = (-(ndimOf(lat) * params.JT + params.hT)) * lat.size

\* the hamiltonian of the all +1 configuration on a lattice of two or more
\* dimensions, with a coupling and a field
C16_Witness ==
    /\ ret.op = "hamiltonian"
    /\ \A k \in 1..Len(cfg) : cfg[k] = 1
    /\ ndimOf(lat) >= 2
    /\ lat.size >= 2
    /\ params.JT # 0
    /\ params.hT # 0
    /\ ret.value # 0

(***************************************************************************)
(* C17: on the periodic 3x3 lattice with checkerboard spins (the sign      *)
(* alternates with the parity of the flat row-major index) the hamiltonian *)
(* is 6 for J/kT = 1, h/kT = 0; and for the configuration with -1 on the   *)
(* even flat indices and +1 on the odd ones it is 6*J/kT + h/kT for every  *)
(* J/kT and h/kT.                                                          *)
(***************************************************************************)
C17_CheckerboardHamiltonian ==
    (ret.op = "hamiltonian" /\ lat.shape = CheckerboardShape) =>
        /\ (/\ cfg \in {checkerboard(lat.size, 1), checkerboard(lat.size, -1)}
            /\ params.JT = 1
            /\ params.hT = 0) => ret.value = 6
        /\ cfg = checkerboard(lat.size, -1) =>
              ret.value = 6 * params.JT + params.hT

\* the hamiltonian of the checkerboard with -1 on the even indices, for a
\* coupling other than 1 and a field
C17_Witness ==
    /\ ret.op = "hamiltonian"
    /\ lat.shape = CheckerboardShape
    /\ cfg = <<-1, 1, -1, 1, -1, 1, -1, 1, -1>>
    /\ params.JT = -2
    /\ params.hT = 1
    /\ ret.value = -11

(***************************************************************************)
(* C18: the accessors of a Lattice reject arguments out of their domain    *)
(* with an error instead of returning a value: extend(dim) for every       *)
(* dim >= ndim, neighbour(site, k) for every site >= size or k >= 2*ndim,  *)
(* and pairsWithSqDistance(d) for every d that is not a key of the         *)
(* distance map.                                                           *)
(***************************************************************************)
C18_AccessorsRejectOutOfDomain ==
    (ret.op \in {"extend", "neighbour", "pairsWithSqDistance"} /\ ~ret.inDomain) =>
        ret.threw = "out_of_range"

(***************************************************************************)
(* C19: after a program configuration is loaded successfully, ntherm and   *)
(* nprod each have as many entries as the Parameters: a single sweep count *)
(* is replicated to every ensemble, a sequence of the same length is kept  *)
(* unchanged, and a sequence of more than one entry whose length differs   *)
(* from the number of Parameters makes loading fail with an                *)
(* invalid-argument error, before any sweep runs.                          *)
(***************************************************************************)
C19_SweepCountsMatchParameters ==
    ret.op \in {"decode", "main"} =>
        LET decoded == IF ret.op = "decode" THEN ret.threw = "none" ELSE ret.decoded
            count == Len(ret.config.params)
            Settled(node, vec) ==
                /\ decoded => Len(vec) = count
                /\ (decoded /\ node.kind = "scalar") =>
                      \A i \in 1..Len(vec) : vec[i] = node.values[1]
                /\ (decoded /\ node.kind = "sequence" /\ Len(node.values) = count) =>
                      vec = node.values
                /\ (/\ ret.loaded
                    /\ node.kind = "sequence"
                    /\ Len(node.values) > 1
                    /\ Len(node.values) # count) =>
                      /\ ~decoded
                      /\ ret.op = "decode" => ret.threw = "invalid_argument"
                      /\ ret.op = "main" => ret.nsweeps = <<>>
        IN /\ Settled(ret.ntherm, ret.config.ntherm)
           /\ Settled(ret.nprod, ret.config.nprod)

(***************************************************************************)
(* C20: loadParams pairs J and h index-wise into Parameters: when both are *)
(* sequences they have equal lengths, and loading fails with an error      *)
(* whenever the two sequences have different lengths; when exactly one is  *)
(* a scalar it is broadcast to the length of the other; when both are      *)
(* scalars exactly one Parameters results.                                 *)
(***************************************************************************)
C20_ParametersPairedIndexWise ==
    ret.op = "loadParams" =>
        LET bothSequences == ret.J.kind = "sequence" /\ ret.h.kind = "sequence"
            Pairs(J, h) == [i \in 1..Len(J) |-> [JT |-> J[i], hT |-> h[i]]]
            Broadcast(v, n) == [i \in 1..n |-> v]
        IN /\ (bothSequences /\ Len(ret.J.values) # Len(ret.h.values)) =>
                 ret.threw # "none"
           /\ (bothSequences /\ Len(ret.J.values) = Len(ret.h.values)) =>
                 /\ ret.threw = "none"
                 /\ ret.value = Pairs(ret.J.values, ret.h.values)
           /\ (ret.J.kind = "scalar" /\ ret.h.kind = "sequence") =>
                 /\ ret.threw = "none"
                 /\ ret.value = Pairs(Broadcast(ret.J.values[1], Len(ret.h.values)),
                                      ret.h.values)
           /\ (ret.J.kind = "sequence" /\ ret.h.kind = "scalar") =>
                 /\ ret.threw = "none"
                 /\ ret.value = Pairs(ret.J.values,
                                      Broadcast(ret.h.values[1], Len(ret.J.values)))
           /\ (ret.J.kind = "scalar" /\ ret.h.kind = "scalar") =>
                 /\ ret.threw = "none"
                 /\ ret.value = <<[JT |-> ret.J.values[1], hT |-> ret.h.values[1]]>>

(***************************************************************************)
(* C21: evolve has value semantics: from the call to the return the        *)
(* caller's configuration and energy arguments (call.cfg, call.energy),    *)
(* the Lattice and the Parameters stay as they were; what evolve changes   *)
(* are its own copies, which it returns, the observables and what the      *)
(* callbacks are handed.                                                   *)
(***************************************************************************)
C21_EvolveHasValueSemantics ==
    [][/\ lat' = lat
       /\ params' = params
       /\ pc # "idle" => (call.cfg' = call.cfg /\ call.energy' = call.energy)
       /\ pc' = "done" => (ret'.cfg = cfg' /\ ret'.energy = energy')]_vars

\* evolve has returned a configuration and an energy other than the ones it
\* was given
C21_Witness ==
    /\ pc = "done"
    /\ ret.op = "evolve"
    /\ ret.cfg # call.cfg
    /\ ret.energy # call.energy
    /\ call.cfg = Configuration(lat.size, call.cfg[1])

(***************************************************************************)
(* C22: a flip attempt of evolve is accepted whenever delta <= 0 and       *)
(* otherwise exactly when exp(-delta) > the drawn real; an accepted        *)
(* attempt negates the spin at the drawn site only, adds delta to the      *)
(* running energy and increments the accept counter by one; a rejected     *)
(* attempt leaves the three unchanged; no attempt changes another site.    *)
(* The step is an attempt when pc = "step"; attempt' holds its delta, its  *)
(* drawn real (in thousandths) and its verdict.                            *)
(***************************************************************************)
C22_AcceptRejectStep ==
    [][pc = "step" =>
         /\ attempt'.accepted <=>
               (attempt'.delta <= 0 \/ expMilli(attempt'.delta) >= attempt'.real)
         /\ attempt'.accepted =>
               /\ \E site \in 1..Len(cfg) :
                     /\ cfg'[site] = -cfg[site]
                     /\ \A other \in (1..Len(cfg)) \ {site} : cfg'[other] = cfg[other]
                     /\ attempt'.delta = deltaE(cfg, site - 1, params, lat)
               /\ Len(cfg') = Len(cfg)
               /\ energy' = energy + attempt'.delta
               /\ naccept' = naccept + 1
         /\ ~attempt'.accepted =>
               /\ cfg' = cfg
               /\ energy' = energy
               /\ naccept' = naccept]_vars

\* an accepted attempt with delta > 0 that followed a rejected one: the
\* accept counter and the energy moved once
C22_Witness ==
    /\ pc \in {"step", "measure"}
    /\ attempt.accepted
    /\ attempt.delta > 0
    /\ attempt.real > 0
    /\ step >= 2
    /\ naccept = 1
    /\ energy = call.energy + attempt.delta

(***************************************************************************)
(* C23: sqDistances() returns every key of the distance map exactly once,  *)
(* in strictly ascending order; an Observables built from the lattice has  *)
(* one correlator bin per key in that order, and bin k holds the averages  *)
(* over pairsWithSqDistance(sqDistances()[k]): right after a sweep its     *)
(* last value is the sum of the spin products over those pairs (the pairs  *)
(* of equal spins minus the pairs of opposite spins) and their number.     *)
(***************************************************************************)
C23_CorrelatorBinsFollowSqDistances ==
    (obs.present /\ pc \in {"step", "measure", "return", "done"}) =>
        LET sqd == sqDistances(lat)
            Aligned(pairs) ==
                Cardinality({p \in 1..Len(pairs) :
                                cfg[pairs[p][1] + 1] = cfg[pairs[p][2] + 1]})
        IN /\ \A k \in 1..(Len(sqd) - 1) : sqd[k] < sqd[k + 1]
           /\ {sqd[k] : k \in 1..Len(sqd)} = DOMAIN lat.distMap
           /\ Len(sqd) = Cardinality(DOMAIN lat.distMap)
           /\ obs.corr.sqDistances = sqd
           /\ Len(obs.corr.correlator) = Len(sqd)
           /\ (sweep > 0 /\ step = 0) =>
                 \A k \in 1..Len(sqd) :
                    LET bin == obs.corr.correlator[k]
                        pairs == lat.distMap[sqd[k]]
                    IN bin[Len(bin)] = <<2 * Aligned(pairs) - Len(pairs), Len(pairs)>>

\* after a sweep on a lattice with several squared distances, the bins hold
\* different values
C23_Witness ==
    /\ obs.present
    /\ pc \in {"step", "return"}
    /\ sweep > 0
    /\ step = 0
    /\ Len(obs.corr.correlator) >= 2
    /\ sqDistances(lat)[1] < sqDistances(lat)[2]
    /\ obs.corr.correlator[1][sweep] # obs.corr.correlator[2][sweep]
    /\ obs.corr.correlator[2][sweep][1] < 0

(***************************************************************************)
(* C26: every bucket of the distance map is non-empty and holds no pair    *)
(* twice, so that in measureCorrelator the pair count n is never 0 and     *)
(* every appended value aux/n lies in [-1, 1]; the value appended for the  *)
(* squared distance 0 is exactly 1 in every sweep.  Values are <<aux, n>>. *)
(***************************************************************************)
C26_CorrelatorValuesDefined ==
    (obs.present /\ pc \in {"step", "measure", "return", "done"}) =>
        /\ \A d \in DOMAIN lat.distMap :
              /\ Len(lat.distMap[d]) > 0
              /\ \A p, q \in 1..Len(lat.distMap[d]) :
                    p # q => /\ lat.distMap[d][p] # lat.distMap[d][q]
                             /\ lat.distMap[d][p] # <<lat.distMap[d][q][2],
                                                      lat.distMap[d][q][1]>>
        /\ \A k \in 1..Len(obs.corr.correlator) :
              \A t \in 1..Len(obs.corr.correlator[k]) :
                 LET value == obs.corr.correlator[k][t]
                 IN /\ value[2] > 0
                    /\ -value[2] <= value[1]
                    /\ value[1] <= value[2]
                    /\ obs.corr.sqDistances[k] = 0 => value[1] = value[2]

\* two sweeps were measured on a lattice with the squared distances 0 and 1
\* and several pairs for each; a negative value was appended for the squared
\* distance 1
C26_Witness ==
    /\ obs.present
    /\ pc = "done"
    /\ sweep >= 2
    /\ Len(obs.corr.correlator) >= 2
    /\ obs.corr.sqDistances[1] = 0
    /\ Len(lat.distMap[0]) >= 2
    /\ \E t \in 1..sweep :
          /\ obs.corr.correlator[2][t][1] < 0
          /\ obs.corr.correlator[2][t][2] >= 2
          /\ obs.corr.correlator[1][t] = <<Len(lat.distMap[0]), Len(lat.distMap[0])>>

(***************************************************************************)
(* C25: during the construction of the neighbour list the multi-index      *)
(* counter and the flat loop index stay consistent: at the start of        *)
(* iteration i, totalIndex(counter, shape) = i and every coordinate of the *)
(* counter is below its extent; the size iterations visit every site       *)
(* exactly once, and after the last increment the counter is back at all   *)
(* zeros.  The same holds for the two counters of buildDistMap: site0 with *)
(* i, and site1 with j, which starts at site0.                             *)
(***************************************************************************)
C25_CountersFollowFlatIndex ==
    LET latsize == latticeSize(loop.shape)
        Consistent(counter, flat) ==
            /\ totalIndex(counter, loop.shape) = flat
            /\ \A d \in 1..Len(loop.shape) : counter[d] < loop.shape[d]
        Zeros == [d \in 1..Len(loop.shape) |-> 0]
        EverySiteOnce == loop.visited = [k \in 1..latsize |-> k - 1]
    IN /\ (loop.fn = "makeNeighbourList" /\ loop.at = "outer" /\ loop.i < latsize) =>
             Consistent(loop.index, loop.i)
       /\ (loop.fn = "makeNeighbourList" /\ loop.at = "done") =>
             (EverySiteOnce /\ loop.index = Zeros)
       /\ (loop.fn = "buildDistMap" /\ loop.at \in {"outer", "inner"} /\ loop.i < latsize) =>
             Consistent(loop.index, loop.i)
       /\ (loop.fn = "buildDistMap" /\ loop.at = "inner") =>
             /\ loop.j < latsize => Consistent(loop.site1, loop.j)
             /\ loop.j = loop.i => loop.site1 = loop.index
             /\ loop.j >= latsize => loop.site1 = Zeros
       /\ (loop.fn = "buildDistMap" /\ loop.at = "done") =>
             (EverySiteOnce /\ loop.index = Zeros)

(***************************************************************************)
(* C27: for every non-empty shape whose extents are all >= 1, no Index     *)
(* subtraction made while a Lattice is constructed (in increment,          *)
(* incrementedAt, decrementedAt, mindist1d and the loop bound of           *)
(* buildDistMap) goes below zero: the minuend is never smaller than the    *)
(* subtrahend.                                                             *)
(***************************************************************************)
C27_NoSubtractionBelowZero ==
    \A sub \in loop.subs : sub[1] >= sub[2]

\* the iteration for the last site of a lattice with an extent of 1 and a
\* larger one: decrementedAt took its periodic branch with 1 - 1, and
\* increment carried through every dimension (ndim-1 - (ndim-1))
C27_Witness ==
    /\ loop.fn = "makeNeighbourList"
    /\ loop.at = "outer"
    /\ loop.i = latticeSize(loop.shape)
    /\ loop.i >= 2
    /\ \E d \in 1..Len(loop.shape) : loop.shape[d] = 1
    /\ <<1, 1>> \in loop.subs
    /\ <<Len(loop.shape) - 1, Len(loop.shape) - 1>> \in loop.subs
    /\ \E sub \in loop.subs : sub[1] > sub[2]

(***************************************************************************)
(* C24: in the main driver, on a lattice whose extents are all >= 2, every *)
(* energy sample written for ensemble i equals hamiltonian(configuration   *)
(* at the end of that production sweep, params[i], lattice): the energy is *)
(* recomputed with params[i] before the thermalisation of the ensemble,    *)
(* thermalisation sweeps record nothing, and the production run records    *)
(* exactly nprod[i] samples, whatever the initial thermalisation, started  *)
(* with the energy 0.0, and the earlier ensembles left behind.             *)
(***************************************************************************)
C24_SamplesAreHamiltonian ==
    [][LET mine == prog.input.params[prog.i + 1]
       IN /\ (prog.at # "thermalise" /\ prog'.at = "thermalise") =>
                /\ params' = mine
                /\ energy' = hamiltonian(cfg', mine, lat)
          /\ prog'.at \in {"initial", "thermalise"} => obs' = NoObs
          /\ (prog.at = "produce" /\ prog'.at = "produce") =>
                /\ params' = mine
                /\ obs'.energy = IF pc = "measure"
                                 THEN Append(obs.energy, hamiltonian(cfg', mine, lat))
                                 ELSE obs.energy
          /\ (prog.at = "produce" /\ prog'.at # "produce") =>
                /\ prog'.written.done
                /\ prog'.written.ensemble = prog.i
                /\ prog'.written.samples = Len(obs.energy)
                /\ prog'.written.samples = prog.input.nprod[prog.i + 1]]_vars

\* the production run of the second ensemble has recorded a sample after a
\* sweep that changed the configuration, and the initial thermalisation had
\* left an energy that was not the Hamiltonian of the first ensemble
C24_Witness ==
    /\ prog.at = "produce"
    /\ prog.i = 1
    /\ pc = "done"
    /\ Len(obs.energy) >= 1
    /\ cfg # call.cfg
    /\ obs.energy[1] # call.energy
    /\ prog.written.done
    /\ prog.written.samples >= 1

(***************************************************************************)
(* C28: writing the observables of an ensemble reads only elements inside  *)
(* the bounds of each written sequence, for every Observables the driver   *)
(* can produce, the empty correlator of a lattice built without a maximum  *)
(* distance and the empty energy and magnetisation series of zero          *)
(* production sweeps included.                                             *)
(***************************************************************************)
C28_WriteReadsWithinBounds ==
    prog.written.done => \A read \in prog.written.reads : ~outOfBounds(read)

(***************************************************************************)
(* C29: in the two-dimensional program deltaE(cfg, idx) is the change of   *)
(* the energy if the spin at idx were flipped, hamiltonian(cfg with idx    *)
(* flipped) - hamiltonian(cfg), for every configuration and site; hence    *)
(* the running energy that evolve updates by delta, started in main from   *)
(* hamiltonian(cfg), is hamiltonian of the current configuration after     *)
(* every accepted flip.                                                    *)
(***************************************************************************)
C29_DeltaEIsHamiltonianDifference2D ==
    lat.size > 0 =>
        /\ \A idx \in 0..(lat.size - 1) :
              deltaE2D(cfg, lat.neighbourList, idx)
                 = hamiltonian2D([cfg EXCEPT ![idx + 1] = @ * (-1)], lat.neighbourList)
                      - hamiltonian2D(cfg, lat.neighbourList)
        /\ pc \in {"step", "measure", "return", "done"} =>
              energy = hamiltonian2D(cfg, lat.neighbourList)

(***************************************************************************)
(* C30: in the two-dimensional program, along every run of evolve          *)
(* Exp::operator() is evaluated only with delta = 4 or delta = 8, so the   *)
(* argument check of the debug build never throws: deltaE only takes       *)
(* values in {-8, -4, 0, 4, 8}, and a delta <= 0 is accepted before Exp is *)
(* consulted.                                                              *)
(***************************************************************************)
C30_ExpOnlyWithFourOrEight ==
    /\ pc # "threw"
    /\ \A k \in 1..Len(invoked) : invoked[k].who = "exp" => invoked[k].delta \in {4, 8}
    /\ attempt.delta \in {-8, -4, 0, 4, 8}
    /\ step > 0 =>
          /\ attempt.delta <= 0 => (invoked = <<>> /\ attempt.accepted)
          /\ attempt.delta > 0 => invoked = <<[who |-> "exp", delta |-> attempt.delta]>>

\* a debug build evaluated Exp with 4 and accepted the flip, after earlier
\* attempts of which some were accepted and some rejected
C30_Witness ==
    /\ ~ndebug
    /\ pc = "step"
    /\ invoked = <<[who |-> "exp", delta |-> 4]>>
    /\ attempt.accepted
    /\ naccept >= 2
    /\ step > naccept

=============================================================================
